---- MODULE Spec2Model ----
(***************************************************************************)
(* A model of the tender scoring and ranking pipeline of your_script.py:   *)
(* the text normaliser, the four scoring functions, and the run of         *)
(* procesar_licitaciones_y_generar_ranking against the spreadsheet.        *)
(*                                                                         *)
(* Text is a sequence of characters; a character is a one-element string,  *)
(* or a name ("Aacute", "CombAcute", "TAB") for a character outside ASCII. *)
(* Numbers the code computes by float division are exact rationals here    *)
(* (records [n, d] in lowest terms): rounding error of binary floating     *)
(* point is not modelled.                                                  *)
(***************************************************************************)
EXTENDS Integers, Sequences, FiniteSets, TLC

(***************************************************************************)
(* Bounds of the model.                                                    *)
(***************************************************************************)
\* longest contract-duration string drawn for calcular_puntaje_monto
MaxDurLen == 2

\* longest text drawn for eliminar_tildes_y_normalizar on its own
MaxNormLen == 3

\* longest tender name and category text drawn for the keyword and category scores
MaxTextLen == 2

\* most keywords, and most blacklist terms, configured at once
MaxKeywords == 2

MaxBlacklist == 1

(***************************************************************************)
(* Characters and strings.                                                 *)
(***************************************************************************)
\* Python None / pandas NaN: a cell that holds no string
None == <<"<None>">>

\* isinstance(x, str): a cell that is no null, no missing date and no date
IsStr(x) == x = <<>> \/ x[1] \notin {"<None>", "<NaT>", "<Fecha>"}

Uppers == <<"A", "B", "C", "D", "E", "F", "G", "H", "I", "J", "K", "L", "M",
            "N", "O", "P", "Q", "R", "S", "T", "U", "V", "W", "X", "Y", "Z",
            "Aacute", "Iacute", "Uacute", "Ntilde">>

Lowers == <<"a", "b", "c", "d", "e", "f", "g", "h", "i", "j", "k", "l", "m",
            "n", "o", "p", "q", "r", "s", "t", "u", "v", "w", "x", "y", "z",
            "aacute", "iacute", "uacute", "ntilde">>

Digits == <<"0", "1", "2", "3", "4", "5", "6", "7", "8", "9">>

\* unicodedata.category(char) == 'Mn': the combining marks
Mn == {"CombAcute", "CombTilde"}

\* what \s and str.strip() take for white space
Whitespace == {" ", "TAB"}

Range(s) == {s[i] : i \in 1..Len(s)}

\* \w of the re module: letters, digits and the underscore
IsWordChar(c) == c \in Range(Uppers) \cup Range(Lowers) \cup Range(Digits) \cup {"_"}

IndexOf(s, c) == CHOOSE i \in 1..Len(s) : s[i] = c

\* str.lower() and str.upper(), one character
LowerChar(c) == IF c \in Range(Uppers) THEN Lowers[IndexOf(Uppers, c)] ELSE c

UpperChar(c) == IF c \in Range(Lowers) THEN Uppers[IndexOf(Lowers, c)] ELSE c

LowerStr(s) == [i \in 1..Len(s) |-> LowerChar(s[i])]

UpperStr(s) == [i \in 1..Len(s) |-> UpperChar(s[i])]

\* unicodedata.normalize('NFD', .), one character: the canonical decomposition
NFDChar(c) ==
    CASE c = "Aacute" -> <<"A", "CombAcute">>
      [] c = "aacute" -> <<"a", "CombAcute">>
      [] c = "Iacute" -> <<"I", "CombAcute">>
      [] c = "iacute" -> <<"i", "CombAcute">>
      [] c = "Uacute" -> <<"U", "CombAcute">>
      [] c = "uacute" -> <<"u", "CombAcute">>
      [] c = "Ntilde" -> <<"N", "CombTilde">>
      [] c = "ntilde" -> <<"n", "CombTilde">>
      [] OTHER -> <<c>>

RECURSIVE NFD(_)
NFD(s) == IF s = <<>> THEN <<>> ELSE NFDChar(Head(s)) \o NFD(Tail(s))

RECURSIVE StripMn(_)
StripMn(s) ==
    IF s = <<>> THEN <<>>
    ELSE IF Head(s) \in Mn THEN StripMn(Tail(s))
    ELSE <<Head(s)>> \o StripMn(Tail(s))

RECURSIVE LStrip(_)
LStrip(s) == IF s # <<>> /\ Head(s) \in Whitespace THEN LStrip(Tail(s)) ELSE s

RECURSIVE RStrip(_)
RStrip(s) ==
    IF s # <<>> /\ s[Len(s)] \in Whitespace THEN RStrip(SubSeq(s, 1, Len(s) - 1)) ELSE s

\* str.strip()
Strip(s) == RStrip(LStrip(s))

\* re.sub(r'\s+', ' ', .): every run of white space becomes one blank
RECURSIVE CollapseWs(_)
CollapseWs(s) ==
    IF s = <<>> THEN <<>>
    ELSE IF Head(s) \in Whitespace THEN <<" ">> \o CollapseWs(LStrip(Tail(s)))
    ELSE <<Head(s)>> \o CollapseWs(Tail(s))

\* the variant that drops the combining marks last, after the trim
eliminar_tildes_y_normalizar_marcas_al_final(texto) ==
    IF texto # <<>> /\ IsStr(texto)
    THEN LowerStr(StripMn(Strip(CollapseWs(NFD(texto)))))
    ELSE texto

\* the variant that forgets the lower-casing
eliminar_tildes_y_normalizar_sin_lower(texto) ==
    IF texto # <<>> /\ IsStr(texto)
    THEN Strip(CollapseWs(StripMn(NFD(texto))))
    ELSE texto

eliminar_tildes_y_normalizar(texto) ==
    IF texto # <<>> /\ IsStr(texto)
    THEN LowerStr(Strip(CollapseWs(StripMn(NFD(texto)))))
    ELSE texto

\* needle in hay, for two strings
Contains(hay, needle) ==
    \E i \in 0..(Len(hay) - Len(needle)) : SubSeq(hay, i + 1, i + Len(needle)) = needle

\* set(re.findall(r'\b\w+\b', texto)): the maximal runs of word characters
Tokens(texto) ==
    {SubSeq(texto, i, j) : <<i, j>> \in
        {p \in (1..Len(texto)) \X (1..Len(texto)) :
            /\ p[1] <= p[2]
            /\ \A k \in p[1]..p[2] : IsWordChar(texto[k])
            /\ (p[1] = 1 \/ ~IsWordChar(texto[p[1] - 1]))
            /\ (p[2] = Len(texto) \/ ~IsWordChar(texto[p[2] + 1]))}}

\* all strings over a set of characters, up to a length
RECURSIVE StringsUpTo(_, _)
StringsUpTo(chars, n) ==
    IF n = 0 THEN {<<>>}
    ELSE LET shorter == StringsUpTo(chars, n - 1)
         IN shorter \cup {Append(s, c) : s \in shorter, c \in chars}

(***************************************************************************)
(* Exact rationals.                                                        *)
(***************************************************************************)
RECURSIVE GCD(_, _)
GCD(a, b) == IF b = 0 THEN a ELSE GCD(b, a % b)

Abs(a) == IF a < 0 THEN -a ELSE a

\* n/d in lowest terms with a positive denominator (d # 0)
Rat(n, d) ==
    LET g == GCD(Abs(n), Abs(d))
        s == IF d < 0 THEN -1 ELSE 1
    IN [n |-> s * (n \div g), d |-> s * (d \div g)]

Zero == [n |-> 0, d |-> 1]

OfInt(i) == [n |-> i, d |-> 1]

RAdd(a, b) ==
    LET g == GCD(a.d, b.d)
    IN  Rat(a.n * (b.d \div g) + b.n * (a.d \div g), (a.d \div g) * b.d)

RMul(a, b) ==
    LET g1 == GCD(Abs(a.n), b.d)
        g2 == GCD(Abs(b.n), a.d)
    IN  Rat((a.n \div g1) * (b.n \div g2), (a.d \div g2) * (b.d \div g1))

\* a / b, b # 0
RDiv(a, b) == RMul(a, IF b.n < 0 THEN [n |-> -b.d, d |-> -b.n] ELSE [n |-> b.d, d |-> b.n])

RLt(a, b) ==
    LET g == GCD(a.d, b.d)
    IN  a.n * (b.d \div g) < b.n * (a.d \div g)

RLe(a, b) == a = b \/ RLt(a, b)

(***************************************************************************)
(* float(str): the decimal numerals, with white space around them and a    *)
(* sign; anything else over the characters drawn here is a ValueError.     *)
(***************************************************************************)
DigitVal(c) == IndexOf(Digits, c) - 1

AllDigits(s) == \A i \in 1..Len(s) : s[i] \in Range(Digits)

RECURSIVE DecVal(_)
DecVal(s) == IF s = <<>> THEN 0 ELSE 10 * DecVal(SubSeq(s, 1, Len(s) - 1)) + DigitVal(s[Len(s)])

RECURSIVE Pow10(_)
Pow10(k) == IF k = 0 THEN 1 ELSE 10 * Pow10(k - 1)

\* an unsigned numeral: digits, at most one point, at least one digit
ParseUnsigned(s) ==
    LET dots == {i \in 1..Len(s) : s[i] = "."}
    IN  IF dots = {}
        THEN IF s # <<>> /\ AllDigits(s)
             THEN [ok |-> TRUE, val |-> OfInt(DecVal(s))]
             ELSE [ok |-> FALSE, val |-> Zero]
        ELSE LET p == CHOOSE i \in dots : TRUE
                 ip == SubSeq(s, 1, p - 1)
                 fp == SubSeq(s, p + 1, Len(s))
             IN  IF Cardinality(dots) = 1 /\ AllDigits(ip) /\ AllDigits(fp)
                    /\ Len(ip) + Len(fp) > 0
                 THEN [ok |-> TRUE, val |-> Rat(DecVal(ip \o fp), Pow10(Len(fp)))]
                 ELSE [ok |-> FALSE, val |-> Zero]

ParseFloat(str) ==
    LET s == Strip(str)
    IN  IF s # <<>> /\ Head(s) = "-"
        THEN LET u == ParseUnsigned(Tail(s))
             IN [ok |-> u.ok, val |-> Rat(-u.val.n, u.val.d)]
        ELSE IF s # <<>> /\ Head(s) = "+" THEN ParseUnsigned(Tail(s))
        ELSE ParseUnsigned(s)

(***************************************************************************)
(* The outcome of a try body: a value, or the exception it raised.         *)
(***************************************************************************)
Returns(v) == [exc |-> "none", val |-> v]

Raises(e) == [exc |-> e, val |-> Zero]

(***************************************************************************)
(* calcular_puntaje_monto                                                  *)
(***************************************************************************)
\* the table of base amounts, by type code
montos_por_tipo ==
    { <<<<"L", "1">>, 0>>,    <<<<"L", "E">>, 100>>,  <<<<"L", "P">>, 1000>>,
      <<<<"L", "Q">>, 2000>>, <<<<"L", "R">>, 5000>>, <<<<"L", "S">>, 0>>,
      <<<<"E", "2">>, 0>>,    <<<<"C", "O">>, 100>>,  <<<<"B", "2">>, 1000>>,
      <<<<"H", "2">>, 2000>>, <<<<"I", "2">>, 5000>> }

\* montos_por_tipo.get(tipo, 0)
montos_get(tipo) ==
    IF \E e \in montos_por_tipo : e[1] = tipo
    THEN (CHOOSE e \in montos_por_tipo : e[1] = tipo)[2]
    ELSE 0

\* the try body: what it returns, or the exception it raises
puntaje_monto_try(tipo_licitacion, tiempo_duracion_contrato) ==
    IF ~IsStr(tipo_licitacion) THEN Raises("AttributeError")
    ELSE LET tipo == UpperStr(Strip(tipo_licitacion))
             monto_base == montos_get(tipo)
         IN  IF ~IsStr(tiempo_duracion_contrato) THEN Raises("TypeError")
             ELSE LET f == ParseFloat(tiempo_duracion_contrato)
                  IN  IF ~f.ok THEN Raises("ValueError")
                      ELSE IF RLt(Zero, f.val)
                           THEN Returns(RDiv(OfInt(monto_base), f.val))
                           ELSE Returns(Zero)

\* the variant of the try body without the guard on the duration
puntaje_monto_try_sin_guarda(tipo_licitacion, tiempo_duracion_contrato) ==
    IF ~IsStr(tipo_licitacion) THEN Raises("AttributeError")
    ELSE LET tipo == UpperStr(Strip(tipo_licitacion))
             monto_base == montos_get(tipo)
         IN  IF ~IsStr(tiempo_duracion_contrato) THEN Raises("TypeError")
             ELSE LET f == ParseFloat(tiempo_duracion_contrato)
                  IN  IF ~f.ok THEN Raises("ValueError")
                      ELSE IF f.val.n = 0 THEN Raises("ZeroDivisionError")
                           ELSE Returns(RDiv(OfInt(monto_base), f.val))

calcular_puntaje_monto_sin_guarda(tipo_licitacion, tiempo_duracion_contrato) ==
    LET r == puntaje_monto_try_sin_guarda(tipo_licitacion, tiempo_duracion_contrato)
    IN  IF r.exc = "none" THEN r ELSE Returns(Zero)

\* the variant that looks the code up without strip().upper()
calcular_puntaje_monto_sin_upper(tipo_licitacion, tiempo_duracion_contrato) ==
    IF ~IsStr(tipo_licitacion) \/ ~IsStr(tiempo_duracion_contrato) THEN Returns(Zero)
    ELSE LET f == ParseFloat(tiempo_duracion_contrato)
         IN  IF f.ok /\ RLt(Zero, f.val)
             THEN Returns(RDiv(OfInt(montos_get(tipo_licitacion)), f.val))
             ELSE Returns(Zero)

\* both except clauses return 0: the call itself never raises
calcular_puntaje_monto(tipo_licitacion, tiempo_duracion_contrato) ==
    LET r == puntaje_monto_try(tipo_licitacion, tiempo_duracion_contrato)
    IN  IF r.exc = "none" THEN r ELSE Returns(Zero)

(***************************************************************************)
(* Rows: a row of a DataFrame is a function from column names to cells.    *)
(***************************************************************************)
\* row.get(col, default)
Get(row, col, default) == IF col \in DOMAIN row THEN row[col] ELSE default

\* str(x).split('.')[0]
RECURSIVE BeforeDot(_)
BeforeDot(s) ==
    IF s = <<>> \/ Head(s) = "." THEN <<>> ELSE <<Head(s)>> \o BeforeDot(Tail(s))

TextColumns == {"Nombre", "Descripcion", "Rubro3", "Nombre producto genrico", "NombreOrganismo"}

\* the column-wise clean-up before scoring: the text columns are normalised,
\* the product code is cut at its decimal point and normalised
normalizar_columnas(row) ==
    [col \in DOMAIN row |->
        IF col \in TextColumns
        THEN (IF IsStr(row[col]) THEN eliminar_tildes_y_normalizar(row[col]) ELSE row[col])
        ELSE IF col = "CodigoProductoONU"
        THEN (IF row[col] # None THEN eliminar_tildes_y_normalizar(BeforeDot(row[col]))
              ELSE row[col])
        ELSE row[col]]

(***************************************************************************)
(* calcular_puntaje_palabra                                                *)
(***************************************************************************)
\* the text the keywords are looked up in: normalised name, a blank, normalised
\* description (a null cell counts as the empty string)
texto_de(row) ==
    LET nombre == IF row["Nombre"] # None
                  THEN eliminar_tildes_y_normalizar(row["Nombre"]) ELSE <<>>
        descripcion == IF row["Descripcion"] # None
                       THEN eliminar_tildes_y_normalizar(row["Descripcion"]) ELSE <<>>
    IN  nombre \o <<" ">> \o descripcion

puntaje_palabra_try(row, palabras_clave_set, lista_negra) ==
    IF ~({"Nombre", "Descripcion"} \subseteq DOMAIN row) THEN Raises("KeyError")
    ELSE LET palabras_texto == Tokens(texto_de(row)) \ lista_negra
             palabras_encontradas == palabras_clave_set \cap palabras_texto
         IN  Returns(OfInt(Cardinality(palabras_encontradas) * 10))

\* the variant whose except branch returns -1
calcular_puntaje_palabra_error_negativo(row, palabras_clave_set, lista_negra) ==
    LET r == puntaje_palabra_try(row, palabras_clave_set, lista_negra)
    IN  IF r.exc = "none" THEN r ELSE Returns(OfInt(-1))

\* the variant that does not take the blacklist out of the tokens
calcular_puntaje_palabra_sin_lista_negra(row, palabras_clave_set, lista_negra) ==
    LET r == puntaje_palabra_try(row, palabras_clave_set, {})
    IN  IF r.exc = "none" THEN r ELSE Returns(Zero)

\* the variant that looks for the terms inside the text, not among its tokens
calcular_puntaje_palabra_subcadena(row, palabras_clave_set, lista_negra) ==
    IF ~({"Nombre", "Descripcion"} \subseteq DOMAIN row) THEN Returns(Zero)
    ELSE Returns(OfInt(10 * Cardinality({p \in palabras_clave_set \ lista_negra :
                                            Contains(texto_de(row), p)})))

calcular_puntaje_palabra(row, palabras_clave_set, lista_negra) ==
    LET r == puntaje_palabra_try(row, palabras_clave_set, lista_negra)
    IN  IF r.exc = "none" THEN r ELSE Returns(Zero)

(***************************************************************************)
(* calcular_puntaje_rubro                                                  *)
(* rubros_y_productos is a dict: a function from labels to product lists.  *)
(***************************************************************************)
rubro_column_de(row) ==
    IF Get(row, "Rubro3", <<>>) # None THEN Get(row, "Rubro3", <<>>) ELSE <<>>

codigo_producto_de(row) ==
    IF Get(row, "CodigoProductoONU", <<>>) # None
    THEN Strip(Get(row, "CodigoProductoONU", <<>>))
    ELSE <<>>

rubros_presentes(row, rubros_y_productos) ==
    {rubro \in DOMAIN rubros_y_productos :
        rubro # <<>> /\ Contains(rubro_column_de(row), rubro)}

\* the variant that looks for each configured product inside the product code
productos_presentes_subcadena(row, rubros_y_productos) ==
    {codigo \in UNION {Range(rubros_y_productos[rubro]) : rubro \in DOMAIN rubros_y_productos} :
        Contains(codigo_producto_de(row), codigo)}

productos_presentes(row, rubros_y_productos) ==
    {codigo \in {codigo_producto_de(row)} :
        \E rubro \in DOMAIN rubros_y_productos :
            codigo \in Range(rubros_y_productos[rubro])}

\* the variant that wants the category text to equal the label
calcular_puntaje_rubro_igualdad(row, rubros_y_productos) ==
    Returns(OfInt(
        Cardinality({rubro \in DOMAIN rubros_y_productos :
                        rubro # <<>> /\ rubro_column_de(row) = rubro}) * 5
        + Cardinality(productos_presentes(row, rubros_y_productos)) * 10))

\* nothing in the try body raises on a row of cells that are strings or null
calcular_puntaje_rubro(row, rubros_y_productos) ==
    Returns(OfInt(
        Cardinality(rubros_presentes(row, rubros_y_productos)) * 5
        + Cardinality(productos_presentes(row, rubros_y_productos)) * 10))

(***************************************************************************)
(* calcular_puntaje_clientes                                               *)
(* puntaje_clientes is a dict: a function from normalised names to scores. *)
(***************************************************************************)
\* the score of one status cell: 'vigente' 10, 'no vigente' 5, anything else 0
puntaje_de_estado(estado) ==
    LET estado_lower == LowerStr(Strip(estado))
    IN  IF estado_lower = <<"v", "i", "g", "e", "n", "t", "e">> THEN 10
        ELSE IF estado_lower = <<"n", "o", " ", "v", "i", "g", "e", "n", "t", "e">> THEN 5
        ELSE 0

\* the client map read from columns D and E of the client sheet, header rows
\* already cut: zip stops at the shorter column and a later row replaces an
\* earlier one of the same normalised name
obtener_puntaje_clientes(clientes, estados) ==
    IF clientes = <<>> \/ estados = <<>> THEN <<>>
    ELSE LET n == IF Len(clientes) < Len(estados) THEN Len(clientes) ELSE Len(estados)
             cliente_normalizado(i) == eliminar_tildes_y_normalizar(Strip(LowerStr(clientes[i])))
             ultimo(c) == CHOOSE i \in 1..n :
                              /\ cliente_normalizado(i) = c
                              /\ \A j \in (i + 1)..n : cliente_normalizado(j) # c
         IN  [c \in {cliente_normalizado(i) : i \in 1..n} |-> puntaje_de_estado(estados[ultimo(c)])]

\* the variant that looks the name up as it is written
calcular_puntaje_clientes_sin_normalizar(nombre_organismo, puntaje_clientes) ==
    IF nombre_organismo = None \/ nombre_organismo = <<>> THEN Returns(Zero)
    ELSE IF nombre_organismo \in DOMAIN puntaje_clientes
         THEN Returns(OfInt(puntaje_clientes[nombre_organismo]))
         ELSE Returns(Zero)

calcular_puntaje_clientes(nombre_organismo, puntaje_clientes) ==
    IF nombre_organismo = None \/ nombre_organismo = <<>> THEN Returns(Zero)
    ELSE LET cliente_normalizado ==
                 eliminar_tildes_y_normalizar(Strip(LowerStr(nombre_organismo)))
         IN  IF cliente_normalizado \in DOMAIN puntaje_clientes
             THEN Returns(OfInt(puntaje_clientes[cliente_normalizado]))
             ELSE Returns(Zero)

(***************************************************************************)
(* Scoring a row: the four score columns and 'Puntaje Total'.              *)
(***************************************************************************)
PuntajeCols == <<"Puntaje Rubro", "Puntaje Palabra", "Puntaje Monto", "Puntaje Clientes">>

\* the variant that leaves the client score out of the total
puntaje_total_sin_clientes(rubro, palabra, monto, clientes) ==
    RAdd(RAdd(rubro, palabra), monto)

\* 'Puntaje Total': the plain sum of the four columns
puntaje_total(rubro, palabra, monto, clientes) ==
    RAdd(RAdd(RAdd(rubro, palabra), monto), clientes)

calcular_puntajes(row, cfg) ==
    LET palabra == calcular_puntaje_palabra(row, cfg.palabras_clave, cfg.lista_negra).val
        rubro == calcular_puntaje_rubro(row, cfg.rubros_y_productos).val
        monto == calcular_puntaje_monto(row["Tipo"], row["TiempoDuracionContrato"]).val
        clientes == calcular_puntaje_clientes(row["NombreOrganismo"], cfg.puntaje_clientes).val
    IN  ("Puntaje Palabra" :> palabra) @@ ("Puntaje Rubro" :> rubro)
            @@ ("Puntaje Monto" :> monto) @@ ("Puntaje Clientes" :> clientes)
            @@ ("Puntaje Total" :> puntaje_total(rubro, palabra, monto, clientes))
            @@ row

MapRows(df, cfg) == [i \in 1..Len(df) |-> calcular_puntajes(df[i], cfg)]

(***************************************************************************)
(* Sorting and selecting.  A table is a sequence of rows; the operators    *)
(* over tables are written without recursion over the rows, so that they   *)
(* evaluate on tables of more than Top100 rows.                            *)
(***************************************************************************)
MaxOf(S) == CHOOSE m \in S : \A k \in S : k <= m

MinOf(a, b) == IF a < b THEN a ELSE b

InsertAfter(s, p, x) == SubSeq(s, 1, p) \o <<x>> \o SubSeq(s, p + 1, Len(s))

\* the rows of df at the places K, in their order
SubTabla(df, K) ==
    LET lugares == {<<Cardinality({j \in K : j <= i}), i>> : i \in K}
    IN  [k \in 1..Cardinality(K) |-> df[(CHOOSE par \in lugares : par[1] = k)[2]]]

\* the variant that drops nothing
drop_duplicates_sin_efecto(df) == df

\* drop_duplicates(subset='CodigoExterno', keep='first')
drop_duplicates(df) ==
    SubTabla(df, {i \in 1..Len(df) :
                    \A j \in 1..(i - 1) : df[j]["CodigoExterno"] # df[i]["CodigoExterno"]})

\* a before b in the descending order of the columns by, from the k-th on
RECURSIVE AntesDesde(_, _, _, _)
AntesDesde(by, a, b, k) ==
    IF k > Len(by) THEN FALSE
    ELSE IF RLt(b[by[k]], a[by[k]]) THEN TRUE
    ELSE IF RLt(a[by[k]], b[by[k]]) THEN FALSE
    ELSE AntesDesde(by, a, b, k + 1)

\* a before b in the descending order of the list of columns by
Antes(by, a, b) == AntesDesde(by, a, b, 1)

\* a stable sort, descending: row a stands before row b when Antes(by, a, b),
\* and rows that neither stands before the other keep their order
OrdenEstable(df, by) ==
    LET n == Len(df)
        lugares == {<<1 + Cardinality({j \in 1..n :
                            \/ Antes(by, df[j], df[i])
                            \/ (~Antes(by, df[i], df[j]) /\ j < i)}), i>> : i \in 1..n}
    IN  [k \in 1..n |-> df[(CHOOSE par \in lugares : par[1] = k)[2]]]

\* the variant that orders by 'Puntaje Total'
sort_por_total(df) == OrdenEstable(df, <<"Puntaje Total">>)

\* sort_values(by=[the four score columns], ascending=False): a sort on several
\* keys is stable, rows of equal keys keep their order
sort_por_puntajes(df) == OrdenEstable(df, PuntajeCols)

\* two rows that differ in their code at most
Intercambiables(a, b) ==
    /\ DOMAIN a = DOMAIN b
    /\ \A col \in DOMAIN a \ {"CodigoExterno"} : a[col] = b[col]

\* the places where row x may be put into s (x goes after place p): any, but
\* after the rows it is interchangeable with
Lugares(s, x) ==
    LET iguales == {i \in 1..Len(s) : Intercambiables(s[i], x)}
    IN  (IF iguales = {} THEN 0 ELSE MaxOf(iguales))..Len(s)

RECURSIVE Intercalar(_, _)
Intercalar(S, resto) ==
    IF resto = <<>> THEN S
    ELSE Intercalar(UNION {{InsertAfter(s, p, Head(resto)) : p \in Lugares(s, Head(resto))} :
                               s \in S},
                    Tail(resto))

\* the orders of a group of rows of equal key.  Rows that differ in their code
\* only are interchangeable and keep the order they came in: one order stands
\* for all the orders of such rows.  The largest class of interchangeable rows
\* is laid down first and the other rows are put between them one by one.
ArreglosDeGrupo(g) ==
    LET n == Len(g)
        rep == [i \in 1..n |-> CHOOSE j \in 1..n :
                   /\ Intercambiables(g[j], g[i])
                   /\ \A k \in 1..(j - 1) : ~Intercambiables(g[k], g[i])]
        tam == [r \in Range(rep) |-> Cardinality({i \in 1..n : rep[i] = r})]
        mayor == CHOOSE r \in Range(rep) :
                     \A q \in Range(rep) : tam[q] < tam[r] \/ (tam[q] = tam[r] /\ r <= q)
    IN  Intercalar({SubTabla(g, {i \in 1..n : rep[i] = mayor})},
                   SubTabla(g, {i \in 1..n : rep[i] # mayor}))

RECURSIVE ArreglosDesde(_, _, _)
ArreglosDesde(base, col, i) ==
    IF i > Len(base) THEN {<<>>}
    ELSE LET j == MaxOf({k \in i..Len(base) : base[k][col] = base[i][col]})
         IN  {a \o resto : a \in ArreglosDeGrupo(SubSeq(base, i, j)),
                           resto \in ArreglosDesde(base, col, j + 1)}

\* the variant that leaves the rows as they come
OrdenesDesc_sin_ordenar(df, col) == {df}

\* sort_values(by=col, ascending=False) is not a stable sort: rows of equal
\* key may come out in any order.  Every order it may give.
OrdenesDesc(df, col) ==
    IF df = <<>> THEN {<<>>} ELSE ArreglosDesde(OrdenEstable(df, <<col>>), col, 1)

\* the size of the Top-N
Top100 == 100

\* .head(n)
HeadN(df, n) == SubSeq(df, 1, MinOf(n, Len(df)))

seleccionar_top_100(df_unique) == HeadN(sort_por_puntajes(df_unique), Top100)

(***************************************************************************)
(* Relative scores and the final score.                                    *)
(***************************************************************************)
RECURSIVE SumEntre(_, _, _, _)
SumEntre(df, col, lo, hi) ==
    IF lo > hi THEN Zero
    ELSE IF lo = hi THEN df[lo][col]
    ELSE LET mid == (lo + hi) \div 2
         IN  RAdd(SumEntre(df, col, lo, mid), SumEntre(df, col, mid + 1, hi))

\* df[col].sum()
SumCol(df, col) == SumEntre(df, col, 1, Len(df))

\* (x / total * 100) if total > 0 else 0
relativo(x, total) ==
    IF RLt(Zero, total) THEN RMul(RDiv(x, total), OfInt(100)) ELSE Zero

RelativoCol(col) ==
    CASE col = "Puntaje Rubro" -> "Puntaje Relativo Rubro"
      [] col = "Puntaje Palabra" -> "Puntaje Relativo Palabra"
      [] col = "Puntaje Monto" -> "Puntaje Relativo Monto"
      [] col = "Puntaje Clientes" -> "Puntaje Relativo Clientes"

RelativoCols == {RelativoCol(PuntajeCols[k]) : k \in 1..Len(PuntajeCols)}

\* the variant that takes the column totals over every deduplicated row
totales_de_todas(df_top_100, df_unique) ==
    [col \in Range(PuntajeCols) |-> SumCol(df_unique, col)]

\* the column totals, over the Top-N
totales_de(df_top_100, df_unique) ==
    [col \in Range(PuntajeCols) |-> SumCol(df_top_100, col)]

\* 'Puntaje Total SUMAPRODUCTO' of a row that has its relative columns
suma_producto(row, ponderaciones) ==
    RAdd(RAdd(RAdd(
        RMul(row["Puntaje Relativo Rubro"], ponderaciones["Puntaje Rubro"]),
        RMul(row["Puntaje Relativo Palabra"], ponderaciones["Puntaje Palabra"])),
        RMul(row["Puntaje Relativo Monto"], ponderaciones["Puntaje Monto"])),
        RMul(row["Puntaje Relativo Clientes"], ponderaciones["Puntaje Clientes"]))

\* the Top-N with its relative columns and its final score
ajustar_relativos(df_top_100, df_unique, ponderaciones) ==
    LET total == totales_de(df_top_100, df_unique)
        rel(row) == [c \in RelativoCols |->
                        LET col == CHOOSE x \in Range(PuntajeCols) : RelativoCol(x) = c
                        IN  relativo(row[col], total[col])]
                    @@ row
    IN  [i \in 1..Len(df_top_100) |->
            ("Puntaje Total SUMAPRODUCTO" :> suma_producto(rel(df_top_100[i]), ponderaciones))
                @@ rel(df_top_100[i])]

\* the variant that leaves the Top-N in the order it has
ordenar_por_final_sin_orden(df_top_100) == {df_top_100}

\* sort_values(by='Puntaje Total SUMAPRODUCTO', ascending=False): every order
\* it may give
ordenar_por_final(df_top_100) == OrdenesDesc(df_top_100, "Puntaje Total SUMAPRODUCTO")

\* round to the nearest integer, a tie to the even one
RoundHalfEven(r) ==
    LET q == r.n \div r.d
        rem == r.n % r.d
    IN  IF 2 * rem < r.d THEN q
        ELSE IF 2 * rem > r.d THEN q + 1
        ELSE IF q % 2 = 0 THEN q ELSE q + 1

\* .round(2)
round2(r) == Rat(RoundHalfEven(RMul(r, OfInt(100))), 100)

\* a positive integer as a string of digits
RECURSIVE DecStr(_)
DecStr(i) == IF i < 10 THEN <<Digits[i + 1]>> ELSE Append(DecStr(i \div 10), Digits[(i % 10) + 1])

\* df_top_100['#'] = range(1, len(df_top_100) + 1)
numerar(orden) ==
    [i \in 1..Len(orden) |-> ("#" :> i) @@ orden[i]]

\* the rows of the ranking sheet: the columns renamed and selected, three of
\* them rounded to 2 decimals
filas_finales(df_top_100) ==
    [i \in 1..Len(df_top_100) |->
        LET row == df_top_100[i]
        IN  ("#" :> row["#"]) @@ ("CodigoExterno" :> row["CodigoExterno"])
                @@ ("Nombre" :> row["Nombre"])
                @@ ("NombreOrganismo" :> row["NombreOrganismo"])
                @@ ("Link" :> row["Link"])
                @@ ("Rubro" :> row["Puntaje Relativo Rubro"])
                @@ ("Palabra" :> round2(row["Puntaje Relativo Palabra"]))
                @@ ("Monto" :> round2(row["Puntaje Relativo Monto"]))
                @@ ("Clientes" :> row["Puntaje Relativo Clientes"])
                @@ ("Puntaje Final" :> round2(row["Puntaje Total SUMAPRODUCTO"]))]

(***************************************************************************)
(* The run, before scoring: the tables and the sheets.                     *)
(***************************************************************************)
COLUMNAS_IMPORTANTES ==
    <<"CodigoExterno", "Nombre", "CodigoEstado", "FechaInicio", "FechaCierre",
      "Descripcion", "NombreOrganismo", "Rubro3", "Nombre producto genrico",
      "Tipo", "CantidadReclamos", "TiempoDuracionContrato", "Link", "CodigoProductoONU">>

SALUD_EXCLUIR ==
    {
      <<"C", "E", "N", "T", "R", "O", " ", "D", "E", " ", "S", "A", "L", "U",
        "D">>,
      <<"P", "R", "E", "H", "O", "S", "P", "I", "T", "A", "L", "A", "R", "I",
        "A">>,
      <<"R", "E", "F", "E", "R", "E", "N", "C", "I", "A", " ", "D", "E", " ",
        "S", "A", "L", "U", "D">>,
      <<"R", "E", "F", "E", "R", "E", "N", "C", "I", "A", "L", " ", "D", "E",
        " ", "S", "A", "L", "U", "D">>,
      <<"O", "N", "C", "O", "L", "O", "G", "I", "C", "O">>,
      <<"C", "E", "S", "F", "A", "M">>,
      <<"C", "O", "M", "P", "L", "E", "J", "O", " ", "A", "S", "I", "S", "T",
        "E", "N", "C", "I", "A", "L">>,
      <<"C", "O", "N", "S", "U", "L", "T", "O", "R", "I", "O">>,
      <<"C", "R", "S">>,
      <<"H", "O", "S", "P", "I", "T", "A", "L">>,
      <<"I", "N", "S", "T", "I", "T", "U", "T", "O", " ", "D", "E", " ", "N",
        "E", "U", "R", "O", "C", "I", "R", "U", "G", "Iacute", "A">>,
      <<"I", "N", "S", "T", "I", "T", "U", "T", "O", " ", "D", "E", " ", "S",
        "A", "L", "U", "D", " ", "P", "Uacute", "B", "L", "I", "C", "A", " ",
        "D", "E", " ", "C", "H", "I", "L", "E">>,
      <<"I", "N", "S", "T", "I", "T", "U", "T", "O", " ", "N", "A", "C", "I",
        "O", "N", "A", "L", " ", "D", "E", " ", "G", "E", "R", "I", "A", "T",
        "R", "I", "A">>,
      <<"I", "N", "S", "T", "I", "T", "U", "T", "O", " ", "N", "A", "C", "I",
        "O", "N", "A", "L", " ", "D", "E", " ", "R", "E", "H", "A", "B", "I",
        "L", "I", "T", "A", "C", "I", "O", "N">>,
      <<"I", "N", "S", "T", "I", "T", "U", "T", "O", " ", "N", "A", "C", "I",
        "O", "N", "A", "L", " ", "D", "E", "L", " ", "C", "A", "N", "C", "E",
        "R">>,
      <<"I", "N", "S", "T", "I", "T", "U", "T", "O", " ", "N", "A", "C", "I",
        "O", "N", "A", "L", " ", "D", "E", "L", " ", "T", "O", "R", "A", "X">>,
      <<"I", "N", "S", "T", "I", "T", "U", "T", "O", " ", "P", "S", "I", "Q",
        "U", "I", "Aacute", "T", "R", "I", "C", "O">>,
      <<"S", "E", "R", "V", " ", "N", "A", "C", " ", "S", "A", "L", "U", "D">>,
      <<"S", "E", "R", "V", " ", "S", "A", "L", "U", "D">>,
      <<"S", "E", "R", "V", "I", "C", "I", "O", " ", "D", "E", " ", "S", "A",
        "L", "U", "D">>,
      <<"S", "E", "R", "V", "I", "C", "I", "O", " ", "N", "A", "C", "I", "O",
        "N", "A", "L", " ", "D", "E", " ", "S", "A", "L", "U", "D">>,
      <<"S", "E", "R", "V", "I", "C", "I", "O", " ", "S", "A", "L", "U", "D">>,
      <<"I", "N", "S", "T", "I", "T", "U", "T", "O", " ", "D", "E", " ", "D",
        "E", "S", "A", "R", "R", "O", "L", "L", "O", " ", "A", "G", "R", "O",
        "P", "E", "C", "U", "A", "R", "I", "O">>
    }

\* a date is a day number; a cell that holds a date is the mark "<Fecha>" and
\* the digits of the day; NaT is the date no text stands for
NaT == <<"<NaT>">>

EsFecha(x) == x # <<>> /\ Head(x) = "<Fecha>"

FechaVal(f) == DecVal(Tail(f))

\* pd.to_datetime(x, errors='coerce'): a text of digits is a date, any other
\* text and a null cell are NaT
to_datetime(x) ==
    IF EsFecha(x) THEN x
    ELSE IF x # None /\ x # NaT /\ x # <<>> /\ AllDigits(x)
    THEN <<"<Fecha>">> \o DecStr(DecVal(x))
    ELSE NaT

\* a >= b on dates: False when either is NaT
FechaGe(a, b) == a # NaT /\ b # NaT /\ FechaVal(a) >= FechaVal(b)

\* the two date columns parsed
convertir_fechas(row) ==
    [col \in DOMAIN row |->
        IF col \in {"FechaInicio", "FechaCierre"} THEN to_datetime(row[col]) ELSE row[col]]

\* serialize_value: a null is the empty text, a date is its text
serialize_value(x) ==
    IF x = None \/ x = NaT THEN <<>>
    ELSE IF EsFecha(x) THEN Tail(x)
    ELSE x

\* the columns of a table
Columnas(t) == UNION {DOMAIN t[i] : i \in 1..Len(t)}

\* pd.concat([a, b], ignore_index=True): the rows of both over the columns of
\* both, a cell that a row has not being null
concat(a, b) ==
    LET cols == Columnas(a) \cup Columnas(b)
        t == a \o b
    IN  [i \in 1..Len(t) |-> [col \in cols |-> Get(t[i], col, None)]]

\* df[cols], after the columns the table lacks are added as None
seleccionar_columnas(t, cols) ==
    [i \in 1..Len(t) |-> [col \in Range(cols) |-> Get(t[i], col, None)]]

\* the columns that hold numbers
ColumnasNumericas ==
    Range(PuntajeCols) \cup {"Puntaje Total", "#", "Rubro", "Palabra", "Monto", "Clientes",
                             "Puntaje Final"}

\* the rows of a table as they are written to a sheet; a number is no null
\* and no date, and is written as it is
serializar(t) ==
    [i \in 1..Len(t) |->
        [col \in DOMAIN t[i] |->
            IF col \in ColumnasNumericas THEN t[i][col] ELSE serialize_value(t[i][col])]]

\* the variant that counts one row more, as if a sheet of one row held data
NumFilasHoja_mas_una(hoja) == (IF hoja.cabecera = <<>> THEN 0 ELSE 1) + Len(hoja.filas) + 1

\* len(worksheet.get_all_values())
NumFilasHoja(hoja) == (IF hoja.cabecera = <<>> THEN 0 ELSE 1) + Len(hoja.filas)

\* the two minimum dates of the settings sheet: ValueError when a row of the
\* range is missing or empty, or when a date does not parse
leer_fechas(valores_fechas) ==
    IF Len(valores_fechas) < 2 \/ \E i \in 1..Len(valores_fechas) : valores_fechas[i] = <<>>
    THEN [exc |-> "ValueError", publicacion |-> NaT, cierre |-> NaT]
    ELSE LET fecha_min_publicacion == to_datetime(valores_fechas[1][1])
             fecha_min_cierre == to_datetime(valores_fechas[2][1])
         IN  IF fecha_min_publicacion = NaT \/ fecha_min_cierre = NaT
             THEN [exc |-> "ValueError", publicacion |-> NaT, cierre |-> NaT]
             ELSE [exc |-> "none", publicacion |-> fecha_min_publicacion,
                   cierre |-> fecha_min_cierre]

\* the variant that tests the publication date alone
filtrar_fechas_solo_publicacion(t, fechas) ==
    LET Pasa(row) == FechaGe(row["FechaInicio"], fechas.publicacion)
    IN  SelectSeq(t, Pasa)

\* the rows published and closing on or after the minimum dates
filtrar_fechas(t, fechas) ==
    LET Pasa(row) == /\ FechaGe(row["FechaInicio"], fechas.publicacion)
                     /\ FechaGe(row["FechaCierre"], fechas.cierre)
    IN  SelectSeq(t, Pasa)

\* the rename of the scraped columns and the columns added as None
columnas_obligatorias ==
    <<"CodigoExterno", "Nombre", "Descripcion", "CodigoEstado", "NombreOrganismo",
      "Tipo", "CantidadReclamos", "FechaInicio", "FechaCierre",
      "TiempoDuracionContrato", "Rubro3", "Nombre producto genrico", "Link">>

renombrar_sicep(row) ==
    LET nombre(col) == CASE col = "Titulo" -> "Nombre"
                         [] col = "Fecha de Publicacion" -> "FechaInicio"
                         [] col = "Fecha de Cierre" -> "FechaCierre"
                         [] OTHER -> col
        cols == {nombre(col) : col \in DOMAIN row}
    IN  [c \in cols \cup Range(columnas_obligatorias) |->
            IF c \in cols THEN row[CHOOSE col \in DOMAIN row : nombre(col) = c] ELSE None]

\* the codes of the selection sheet, normalised; empty cells are skipped
codigos_seleccionados_normalizados(codigos_seleccionados) ==
    {eliminar_tildes_y_normalizar(LowerStr(codigos_seleccionados[i])) :
        i \in {j \in 1..Len(codigos_seleccionados) : codigos_seleccionados[j] # <<>>}}

\* the variant that compares the codes of the ledger as they are written
eliminar_licitaciones_seleccionadas_sin_normalizar(codigos_seleccionados, hoja) ==
    LET codigos == codigos_seleccionados_normalizados(codigos_seleccionados)
        Seleccionada(row) == row["CodigoExterno"] \in codigos
        Queda(row) == ~Seleccionada(row)
    IN  IF codigos = {} THEN hoja
        ELSE IF NumFilasHoja(hoja) < 2 THEN hoja
        ELSE IF "CodigoExterno" \notin Range(hoja.cabecera) THEN hoja
        ELSE IF SelectSeq(hoja.filas, Seleccionada) = <<>> THEN hoja
        ELSE [cabecera |-> hoja.cabecera, filas |-> SelectSeq(hoja.filas, Queda)]

\* the variant that writes the rows that stay from the last to the first
eliminar_licitaciones_seleccionadas_al_reves(codigos_seleccionados, hoja) ==
    LET codigos == codigos_seleccionados_normalizados(codigos_seleccionados)
        Seleccionada(row) ==
            eliminar_tildes_y_normalizar(LowerStr(row["CodigoExterno"])) \in codigos
        Queda(row) == ~Seleccionada(row)
        quedan == SelectSeq(hoja.filas, Queda)
    IN  IF codigos = {} THEN hoja
        ELSE IF NumFilasHoja(hoja) < 2 THEN hoja
        ELSE IF "CodigoExterno" \notin Range(hoja.cabecera) THEN hoja
        ELSE IF SelectSeq(hoja.filas, Seleccionada) = <<>> THEN hoja
        ELSE [cabecera |-> hoja.cabecera,
              filas |-> [i \in 1..Len(quedan) |-> quedan[Len(quedan) + 1 - i]]]

\* eliminar_licitaciones_seleccionadas: the ledger after it
eliminar_licitaciones_seleccionadas(codigos_seleccionados, hoja) ==
    LET codigos == codigos_seleccionados_normalizados(codigos_seleccionados)
        Seleccionada(row) ==
            eliminar_tildes_y_normalizar(LowerStr(row["CodigoExterno"])) \in codigos
        Queda(row) == ~Seleccionada(row)
    IN  IF codigos = {} THEN hoja
        ELSE IF NumFilasHoja(hoja) < 2 THEN hoja
        ELSE IF "CodigoExterno" \notin Range(hoja.cabecera) THEN hoja
        ELSE IF SelectSeq(hoja.filas, Seleccionada) = <<>> THEN hoja
        ELSE [cabecera |-> hoja.cabecera, filas |-> SelectSeq(hoja.filas, Queda)]

\* str.contains(patron_exclusion, case=False) on the normalised name of the
\* organism: the terms are lowered, their accents are not taken off
excluida_por_salud(row) ==
    LET nombre == eliminar_tildes_y_normalizar(row["NombreOrganismo"])
    IN  \E termino \in SALUD_EXCLUIR : Contains(LowerStr(nombre), LowerStr(termino))

\* the table gets the column of normalised names, and loses the rows of the
\* health organisms
excluir_salud(t) ==
    LET Queda(row) == ~excluida_por_salud(row)
        con_nombre == [i \in 1..Len(t) |->
                          ("NombreOrganismo_normalizado" :>
                               eliminar_tildes_y_normalizar(t[i]["NombreOrganismo"])) @@ t[i]]
    IN  SelectSeq(con_nombre, Queda)

\* float(celda.strip('%')) / 100 for the four weights; ValueError when a
\* cell is no number, IndexError when the range read has no such cell (None)
RECURSIVE StripPct(_)
StripPct(s) ==
    IF s # <<>> /\ Head(s) = "%" THEN StripPct(Tail(s))
    ELSE IF s # <<>> /\ s[Len(s)] = "%" THEN StripPct(SubSeq(s, 1, Len(s) - 1))
    ELSE s

obtener_ponderaciones(celdas) ==
    LET f == [col \in Range(PuntajeCols) |->
                 IF celdas[col] = None THEN [ok |-> FALSE, val |-> Zero]
                 ELSE ParseFloat(StripPct(celdas[col]))]
    IN  IF \E col \in Range(PuntajeCols) : celdas[col] = None
        THEN [exc |-> "IndexError", val |-> [col \in Range(PuntajeCols) |-> Zero]]
        ELSE IF \E col \in Range(PuntajeCols) : ~f[col].ok
        THEN [exc |-> "ValueError", val |-> [col \in Range(PuntajeCols) |-> Zero]]
        ELSE [exc |-> "none",
              val |-> [col \in Range(PuntajeCols) |-> RDiv(f[col].val, OfInt(100))]]

\* df_licitaciones_unique[[the eight columns of the sheet of non-relative scores]]
ColumnasNoRelativos ==
    <<"CodigoExterno", "Nombre", "NombreOrganismo", "Puntaje Rubro", "Puntaje Palabra",
      "Puntaje Monto", "Puntaje Clientes", "Puntaje Total">>

ColumnasFinal ==
    <<"#", "CodigoExterno", "Nombre", "NombreOrganismo", "Link",
      "Rubro", "Palabra", "Monto", "Clientes", "Puntaje Final">>

(***************************************************************************)
(* State.                                                                  *)
(*   call, ret   : one call of a scoring function, and what it returned;   *)
(*                 in a run, the call the backend failed at, with the      *)
(*                 attempts made, and what came of it                      *)
(*   pc          : where the run of procesar_licitaciones_y_generar_ranking*)
(*                 stands                                                  *)
(*   entrada     : what the run reads and does not write: the cells of the *)
(*                 settings sheets, the two monthly downloads, the scrape  *)
(*   hoja2, hoja7, hoja8, hoja11 : the ranking sheet, the ledger of active *)
(*                 tenders, the sheet of non-relative scores, the SICEP    *)
(*                 sheet                                                   *)
(*   df, df_unique, df_top_100, data_final : the tables of the run         *)
(***************************************************************************)
VARIABLES call, ret, pc, entrada, hoja2, hoja7, hoja8, hoja11,
          df, df_unique, df_top_100, data_final

llamada == <<call, ret>>

corrida == <<pc, entrada, hoja2, hoja7, hoja8, hoja11, df, df_unique, df_top_100, data_final>>

vars == <<call, ret, pc, entrada, hoja2, hoja7, hoja8, hoja11,
          df, df_unique, df_top_100, data_final>>

\* a sheet: its header row and the rows under it
HojaVacia == [cabecera |-> <<>>, filas |-> <<>>]

\* no run: the specifications of single functions leave the sheets alone
SinCorrida ==
    /\ pc = "sin corrida"
    /\ entrada = <<>>
    /\ hoja2 = HojaVacia /\ hoja7 = HojaVacia /\ hoja8 = HojaVacia /\ hoja11 = HojaVacia
    /\ df = <<>> /\ df_unique = <<>> /\ df_top_100 = <<>> /\ data_final = <<>>

\* the call has not returned yet
Pending == [exc |-> "pending", val |-> Zero]

Returned == ret.exc # "pending"

(***************************************************************************)
(* SpecMonto: calcular_puntaje_monto on every type code and duration drawn. *)
(***************************************************************************)
DurChars == {"0", "1", "2", "5", "-", ".", " ", "x"}

DurInputs == StringsUpTo(DurChars, MaxDurLen) \cup {None}

TipoInputs ==
    {e[1] : e \in montos_por_tipo}
        \cup {<<"l", "p">>, <<" ", "L", "P", " ">>, <<"l", "R">>, <<"Z", "Z">>, <<>>, None}

InitMonto ==
    /\ call \in [fn : {"calcular_puntaje_monto"}, tipo : TipoInputs, dur : DurInputs]
    /\ ret = Pending
    /\ SinCorrida

CallMonto ==
    /\ call.fn = "calcular_puntaje_monto"
    /\ ~Returned
    /\ ret' = calcular_puntaje_monto(call.tipo, call.dur)
    /\ UNCHANGED <<call, corrida>>

NextMonto == CallMonto

SpecMonto == InitMonto /\ [][NextMonto]_vars

(***************************************************************************)
(* Claims about calcular_puntaje_monto.                                    *)
(***************************************************************************)
\* the duration is "0", negative, empty, not a number, or no string at all
DurNotPositive(dur) ==
    \/ ~IsStr(dur)
    \/ ~ParseFloat(dur).ok
    \/ RLe(ParseFloat(dur).val, Zero)

\* C6: for every type code, a contract duration that is "0", negative, empty
\* or not parsable as a number scores 0; the call returns (it raises nothing)
\* and its body never reaches a division by zero.
C6_MontoZeroGuard ==
    (call.fn = "calcular_puntaje_monto" /\ Returned)
        => /\ ret.exc = "none"
           /\ puntaje_monto_try(call.tipo, call.dur).exc # "ZeroDivisionError"
           /\ DurNotPositive(call.dur) => ret.val = Zero
           /\ call.dur \in {<<"0">>, <<>>, <<"x">>, <<"-", "1">>, <<"x", "1">>, None}
                  => ret.val = Zero

\* a call with a negative duration and a type code of base 1000 has returned
C6_Witness ==
    /\ call.fn = "calcular_puntaje_monto"
    /\ Returned
    /\ call.tipo = <<"L", "P">>
    /\ call.dur = <<"-", "2">>

\* base_amount: the table entry of the trimmed, upper-cased code, 0 if none
C7_BaseAmount(tipo) ==
    IF ~IsStr(tipo) THEN 0
    ELSE LET code == UpperStr(Strip(tipo))
         IN  IF \E e \in montos_por_tipo : e[1] = code
             THEN (CHOOSE e \in montos_por_tipo : e[1] = code)[2]
             ELSE 0

\* C7: a duration that parses to d > 0 scores base_amount(type_code) / d, the
\* base amount taken from the 11-entry table after trimming and upper-casing
\* the code and 0 for an unknown code; "LP" with "10" scores 100.
C7_MontoQuotient ==
    /\ Cardinality(montos_por_tipo) = 11
    /\ Cardinality({e[1] : e \in montos_por_tipo}) = 11
    /\ (call.fn = "calcular_puntaje_monto" /\ Returned /\ ~DurNotPositive(call.dur))
          => /\ ret.exc = "none"
             /\ RMul(ret.val, ParseFloat(call.dur).val) = OfInt(C7_BaseAmount(call.tipo))
             /\ (call.tipo = <<"L", "P">> /\ call.dur = <<"1", "0">>) => ret.val = OfInt(100)
             /\ (call.tipo = <<"l", "p">> /\ call.dur = <<"1", "0">>) => ret.val = OfInt(100)
             /\ (call.tipo = <<"l", "R">> /\ call.dur = <<".", "5">>) => ret.val = OfInt(10000)
             /\ (call.tipo = <<"Z", "Z">>) => ret.val = Zero

\* a lower-case, known code with a positive duration has been scored
C7_Witness ==
    /\ call.fn = "calcular_puntaje_monto"
    /\ Returned
    /\ call.tipo = <<"l", "p">>
    /\ call.dur = <<"1", "0">>
    /\ ret.val = OfInt(100)

(***************************************************************************)
(* SpecPalabra: calcular_puntaje_palabra on every name, description,       *)
(* keyword set and blacklist drawn.  The configured terms are normalised   *)
(* (obtener_palabras_clave, obtener_lista_negra); one is a two-word phrase.*)
(***************************************************************************)
TextChars == {"a", "b", " ", "Aacute"}

NombreInputs == StringsUpTo(TextChars, MaxTextLen) \cup {None}

DescripcionInputs == {<<>>, <<"a">>, <<"b">>, None}

TermPool == {<<"a">>, <<"b">>, <<"a", "b">>, <<"a", " ", "b">>}

SubsetsUpTo(S, n) == {T \in SUBSET S : Cardinality(T) <= n}

PalabraRows ==
    [Nombre : NombreInputs, Descripcion : DescripcionInputs]
        \cup [Nombre : NombreInputs]

InitPalabra ==
    /\ call \in [fn : {"calcular_puntaje_palabra"},
                 row : PalabraRows,
                 palabras_clave : SubsetsUpTo(TermPool, MaxKeywords),
                 lista_negra : SubsetsUpTo(TermPool, MaxBlacklist)]
    /\ ret = Pending
    /\ SinCorrida

CallPalabra ==
    /\ call.fn = "calcular_puntaje_palabra"
    /\ ~Returned
    /\ ret' = calcular_puntaje_palabra(call.row, call.palabras_clave, call.lista_negra)
    /\ UNCHANGED <<call, corrida>>

NextPalabra == CallPalabra

SpecPalabra == InitPalabra /\ [][NextPalabra]_vars

\* C8: the keyword score is the fixed negative penalty (-10) or a non-negative
\* multiple of 10, whatever the tender, the keywords and the blacklist, and
\* also when the row lacks a column and the scoring fails inside.
C8_PalabraValues ==
    (call.fn = "calcular_puntaje_palabra" /\ Returned)
        => /\ ret.exc = "none"
           /\ ret.val.d = 1
           /\ \/ ret.val.n = -10
              \/ ret.val.n >= 0 /\ ret.val.n % 10 = 0

\* a row without its description column has been scored, next to a keyword it names
C8_Witness ==
    /\ call.fn = "calcular_puntaje_palabra"
    /\ Returned
    /\ "Descripcion" \notin DOMAIN call.row
    /\ call.row["Nombre"] = <<"a">>
    /\ <<"a">> \in call.palabras_clave

\* w stands in texto as a whole word
C9_WholeWordIn(texto, w) ==
    /\ w # <<>>
    /\ \A i \in 1..Len(w) : IsWordChar(w[i])
    /\ \E i \in 1..(Len(texto) - Len(w) + 1) :
          /\ SubSeq(texto, i, i + Len(w) - 1) = w
          /\ (i = 1 \/ ~IsWordChar(texto[i - 1]))
          /\ (i + Len(w) > Len(texto) \/ ~IsWordChar(texto[i + Len(w)]))

C9_Case(nombre, descripcion, palabras, negra, puntaje) ==
    (/\ call.row = [Nombre |-> nombre, Descripcion |-> descripcion]
     /\ call.palabras_clave = palabras
     /\ call.lista_negra = negra)
        => ret.val = OfInt(puntaje)

\* C9: the keyword score is 10 times the number of distinct configured keywords
\* that are no blacklist term and stand as a word in the normalised name and
\* description; there is no cap, a keyword that is also a blacklist term counts
\* 0, and a keyword that occurs twice counts once.
C9_PalabraCount ==
    (/\ call.fn = "calcular_puntaje_palabra"
     /\ Returned
     /\ {"Nombre", "Descripcion"} \subseteq DOMAIN call.row)
        => /\ ret.val = OfInt(10 * Cardinality(
                 {k \in call.palabras_clave \ call.lista_negra :
                     C9_WholeWordIn(texto_de(call.row), k)}))
           /\ C9_Case(<<"a">>, <<"b">>, {<<"a">>, <<"b">>}, {}, 20)
           /\ C9_Case(<<"a">>, <<"a">>, {<<"a">>}, {}, 10)
           /\ C9_Case(<<"a">>, <<"b">>, {<<"a">>, <<"b">>}, {<<"a">>}, 10)
           /\ C9_Case(<<"Aacute">>, None, {<<"a">>}, {}, 10)
           /\ C9_Case(<<"a", "b">>, <<>>, {<<"a">>, <<"b">>}, {}, 0)
           /\ C9_Case(<<"a", "b">>, <<>>, {<<"a", "b">>}, {<<"a">>}, 10)

\* a tender that names two keywords, one of them blacklisted, has been scored
C9_Witness ==
    /\ call.fn = "calcular_puntaje_palabra"
    /\ Returned
    /\ call.row = [Nombre |-> <<"a">>, Descripcion |-> <<"b">>]
    /\ call.palabras_clave = {<<"a">>, <<"b">>}
    /\ call.lista_negra = {<<"a">>}
    /\ ret.val = OfInt(10)

(***************************************************************************)
(* SpecRubro: the column clean-up followed by calcular_puntaje_rubro, on    *)
(* every category text, product code and category mapping drawn.           *)
(***************************************************************************)
Alimentos == <<"a", "l", "i", "m", "e", "n", "t", "o", "s">>

AlimentosYBebidas ==
    <<"A", "l", "i", "m", "e", "n", "t", "o", "s", " ", "y", " ",
      "B", "e", "b", "i", "d", "a", "s">>

Codigo1001 == <<"1", "0", "0", "1">>

Codigo1002 == <<"1", "0", "0", "2">>

RubroInputs == StringsUpTo(TextChars, MaxTextLen) \cup {None, AlimentosYBebidas}

CodigoInputs == {<<>>, <<"1">>, <<"2">>, <<"1", ".", "0">>, <<" ", "1">>, None, Codigo1001}

RubroRows ==
    [Rubro3 : RubroInputs, CodigoProductoONU : CodigoInputs]
        \cup [Rubro3 : RubroInputs]

\* category mappings as obtener_rubros_y_productos builds them: normalised,
\* non-empty labels, each with its list of normalised, non-empty product codes
RubroConfigs ==
    { <<>>,
      [r \in {Alimentos} |-> <<Codigo1001, Codigo1002>>],
      [r \in {<<"a">>} |-> <<<<"1">>>>],
      [r \in {<<"a">>} |-> <<>>],
      [r \in {<<"a">>, <<"b">>} |-> <<<<"1">>>>],
      [r \in {<<"a">>, <<"b">>} |-> IF r = <<"a">> THEN <<<<"1">>, <<"2">>>> ELSE <<>>],
      [r \in {<<"a">>, <<"b">>} |-> IF r = <<"a">> THEN <<<<"1">>>> ELSE <<Codigo1001>>],
      [r \in {<<"a">>, <<"a", "b">>, <<"a", " ", "b">>} |-> <<<<"2">>>>] }

InitRubro ==
    /\ call \in [fn : {"calcular_puntaje_rubro"},
                 row : RubroRows,
                 rubros_y_productos : RubroConfigs]
    /\ ret = Pending
    /\ SinCorrida

CallRubro ==
    /\ call.fn = "calcular_puntaje_rubro"
    /\ ~Returned
    /\ ret' = calcular_puntaje_rubro(normalizar_columnas(call.row), call.rubros_y_productos)
    /\ UNCHANGED <<call, corrida>>

NextRubro == CallRubro

SpecRubro == InitRubro /\ [][NextRubro]_vars

\* the tender's normalised category text ('' for a null cell)
C10_CategoryText(row) ==
    IF row["Rubro3"] = None THEN <<>> ELSE eliminar_tildes_y_normalizar(row["Rubro3"])

\* the configured labels that are substrings of the normalised category text
C10_MatchedLabels ==
    {label \in DOMAIN call.rubros_y_productos :
        \E i \in 0..(Len(C10_CategoryText(call.row)) - Len(label)) :
            \A k \in 1..Len(label) : C10_CategoryText(call.row)[i + k] = label[k]}

\* the tender's product code: the cell up to its decimal point, normalised
C10_ProductCode(row) ==
    IF "CodigoProductoONU" \notin DOMAIN row \/ row["CodigoProductoONU"] = None
    THEN <<>>
    ELSE Strip(eliminar_tildes_y_normalizar(BeforeDot(row["CodigoProductoONU"])))

\* the tender's product code is none of the configured products
C10_NoProduct ==
    \A label \in DOMAIN call.rubros_y_productos :
        \A k \in 1..Len(call.rubros_y_productos[label]) :
            call.rubros_y_productos[label][k] # C10_ProductCode(call.row)

\* C10: the category score holds 5 points for each configured label that is a
\* substring of the tender's normalised category text, each label once: it is
\* 5 times their number when no product matches, and that plus a multiple of
\* 10 otherwise; {"alimentos": ["1001","1002"]} with "Alimentos y Bebidas" and
\* product 1001 scores 15.
C10_RubroLabels ==
    (call.fn = "calcular_puntaje_rubro" /\ Returned)
        => /\ ret.exc = "none" /\ ret.val.d = 1
           /\ ret.val.n >= 5 * Cardinality(C10_MatchedLabels)
           /\ (ret.val.n - 5 * Cardinality(C10_MatchedLabels)) % 10 = 0
           /\ C10_NoProduct => ret.val.n = 5 * Cardinality(C10_MatchedLabels)
           /\ (/\ call.row = [Rubro3 |-> AlimentosYBebidas, CodigoProductoONU |-> Codigo1001]
               /\ DOMAIN call.rubros_y_productos = {Alimentos})
                 => ret.val.n = 15

\* scenario B has been scored: one label and one product match
C10_Witness ==
    /\ call.fn = "calcular_puntaje_rubro"
    /\ Returned
    /\ call.row = [Rubro3 |-> AlimentosYBebidas, CodigoProductoONU |-> Codigo1001]
    /\ call.rubros_y_productos = [r \in {Alimentos} |-> <<Codigo1001, Codigo1002>>]
    /\ ret.val = OfInt(15)

\* every product identifier configured under any label
C11_Configured ==
    UNION {{call.rubros_y_productos[label][k] : k \in 1..Len(call.rubros_y_productos[label])} :
              label \in DOMAIN call.rubros_y_productos}

\* the configured identifiers that occur inside the tender's product code
C11_Contained ==
    {producto \in C11_Configured :
        \E i \in 0..(Len(C10_ProductCode(call.row)) - Len(producto)) :
            \A k \in 1..Len(producto) : C10_ProductCode(call.row)[i + k] = producto[k]}

\* the points left once the label points are taken away
C11_ProductPoints == ret.val.n - 5 * Cardinality(C10_MatchedLabels)

\* C11 as stated: the category score holds 10 points for each distinct
\* configured product identifier, of any label, that is a substring of the
\* tender's product text: k contained identifiers give 10*k product points.
C11_ProductoSubcadena ==
    (call.fn = "calcular_puntaje_rubro" /\ Returned)
        => C11_ProductPoints = 10 * Cardinality(C11_Contained)

\* C11 as the code has it: the category score holds 10 product points when
\* the tender's product code equals a configured product identifier of any
\* label, matched or not, and none otherwise: never more than 10.
C11_ProductoExacto ==
    (call.fn = "calcular_puntaje_rubro" /\ Returned)
        => /\ ret.exc = "none" /\ ret.val.d = 1
           /\ C11_ProductPoints = IF C10_ProductCode(call.row) \in C11_Configured THEN 10 ELSE 0

\* product code 1001 under labels a (product 1) and b (product 1001), neither
\* label in the category text: two identifiers occur in the code, one equals it
C11_Witness ==
    /\ call.fn = "calcular_puntaje_rubro"
    /\ Returned
    /\ call.row = [Rubro3 |-> <<>>, CodigoProductoONU |-> Codigo1001]
    /\ DOMAIN call.rubros_y_productos = {<<"a">>, <<"b">>}
    /\ Cardinality(C11_Contained) = 2
    /\ ret.val = OfInt(10)

(***************************************************************************)
(* SpecClientes: calcular_puntaje_clientes on every organism name drawn,   *)
(* against the client map obtener_puntaje_clientes builds from the client  *)
(* sheet's two columns.                                                    *)
(***************************************************************************)
MunicipalidadDeMaipu ==
    <<"M", "u", "n", "i", "c", "i", "p", "a", "l", "i", "d", "a", "d", " ",
      "d", "e", " ", "M", "a", "i", "p", "u">>

MunicipalidadDeMaipuTilde ==
    <<"M", "u", "n", "i", "c", "i", "p", "a", "l", "i", "d", "a", "d", " ",
      "d", "e", " ", "M", "a", "i", "p", "uacute">>

MunicipalidadDesconocida ==
    <<"M", "u", "n", "i", "c", "i", "p", "a", "l", "i", "d", "a", "d", " ",
      "D", "e", "s", "c", "o", "n", "o", "c", "i", "d", "a">>

ClienteChars == {"a", "A", "Aacute", " "}

OrganismoInputs ==
    StringsUpTo(ClienteChars, MaxTextLen)
        \cup {None, MunicipalidadDeMaipu, MunicipalidadDeMaipuTilde, MunicipalidadDesconocida,
              <<" ", " ", "M", "U", "N", "I", "C", "I", "P", "A", "L", "I", "D", "A",
      "D", " ", " ", "D", "E", "TAB", "M", "A", "I", "P", "Uacute", " ">>}

Vigente == <<"V", "i", "g", "e", "n", "t", "e">>

NoVigente == <<"N", "o", " ", "V", "i", "g", "e", "n", "t", "e", " ">>

\* columns D and E of the client sheet from row 4 on
ClientesColumnas ==
    { [clientes |-> <<>>, estados |-> <<>>],
      [clientes |-> <<MunicipalidadDeMaipuTilde>>, estados |-> <<Vigente>>],
      [clientes |-> <<MunicipalidadDeMaipuTilde>>, estados |-> <<>>],
      [clientes |-> <<<<"A">>, <<"a", " ", "a">>>>, estados |-> <<Vigente, NoVigente>>],
      [clientes |-> <<<<"A">>, <<"a">>>>, estados |-> <<Vigente, NoVigente>>],
      [clientes |-> <<<<"Aacute", " ">>, <<"a", "a">>>>, estados |-> <<NoVigente, <<"x">>>>],
      [clientes |-> <<<<"a">>, <<>>, <<"a", "a">>>>, estados |-> <<<<>>, Vigente>>] }

InitClientes ==
    /\ \E nombre \in OrganismoInputs, hoja \in ClientesColumnas :
          call = [fn |-> "calcular_puntaje_clientes",
                  nombre_organismo |-> nombre,
                  puntaje_clientes |-> obtener_puntaje_clientes(hoja.clientes, hoja.estados)]
    /\ ret = Pending
    /\ SinCorrida

CallClientes ==
    /\ call.fn = "calcular_puntaje_clientes"
    /\ ~Returned
    /\ ret' = calcular_puntaje_clientes(call.nombre_organismo, call.puntaje_clientes)
    /\ UNCHANGED <<call, corrida>>

NextClientes == CallClientes

SpecClientes == InitClientes /\ [][NextClientes]_vars

\* the organism name lower-cased, without diacritics, white space collapsed
C12_Normalizado == eliminar_tildes_y_normalizar(call.nombre_organismo)

C12_MapaMaipu == DOMAIN call.puntaje_clientes = {LowerStr(MunicipalidadDeMaipu)}

\* C12: the client score is the configured score of the normalised organism
\* name, and 0 when the name is empty, null or absent from the client map;
\* under {"municipalidad de maipu": 10}, "Municipalidad de Maipu" scores 10
\* and "Municipalidad Desconocida" scores 0.
C12_ClienteScore ==
    (call.fn = "calcular_puntaje_clientes" /\ Returned)
        => /\ ret.exc = "none"
           /\ ret.val = IF call.nombre_organismo \in {None, <<>>} THEN Zero
                        ELSE IF C12_Normalizado \in DOMAIN call.puntaje_clientes
                             THEN OfInt(call.puntaje_clientes[C12_Normalizado])
                             ELSE Zero
           /\ (C12_MapaMaipu /\ call.nombre_organismo = MunicipalidadDeMaipu)
                 => ret.val = OfInt(10)
           /\ (C12_MapaMaipu /\ call.nombre_organismo = MunicipalidadDesconocida)
                 => ret.val = Zero

\* scenario D has been scored: the client of the map, written with capitals
C12_Witness ==
    /\ call.fn = "calcular_puntaje_clientes"
    /\ Returned
    /\ C12_MapaMaipu
    /\ call.puntaje_clientes[LowerStr(MunicipalidadDeMaipu)] = 10
    /\ call.nombre_organismo = MunicipalidadDeMaipu
    /\ ret.val = OfInt(10)

(***************************************************************************)
(* SpecNormalizar: eliminar_tildes_y_normalizar on every text of up to     *)
(* MaxNormLen characters (capitals, accented letters, blanks, tabs, loose  *)
(* combining marks) and on the values that are no strings.                 *)
(***************************************************************************)
NormChars == {"a", "A", "Aacute", "ntilde", " ", "TAB", "CombAcute"}

\* None, a missing date and a date
NoStrings == {None, <<"<NaT>">>, <<"<Fecha>", "3">>}

InitNormalizar ==
    /\ call \in [fn : {"eliminar_tildes_y_normalizar"},
                 texto : StringsUpTo(NormChars, MaxNormLen) \cup NoStrings]
    /\ ret = Pending
    /\ SinCorrida

CallNormalizar ==
    /\ call.fn = "eliminar_tildes_y_normalizar"
    /\ ~Returned
    /\ ret' = Returns(eliminar_tildes_y_normalizar(call.texto))
    /\ UNCHANGED <<call, corrida>>

NextNormalizar == CallNormalizar

SpecNormalizar == InitNormalizar /\ [][NextNormalizar]_vars

\* C13: normalising is idempotent: the text the normaliser returned, empty,
\* blank, accented or mixed-case as its input may have been, is returned
\* unchanged when normalised again.
C13_Idempotente ==
    (call.fn = "eliminar_tildes_y_normalizar" /\ Returned)
        => eliminar_tildes_y_normalizar(ret.val) = ret.val

\* an accented capital between white space was normalised to another text
C13_Witness ==
    /\ call.fn = "eliminar_tildes_y_normalizar"
    /\ Returned
    /\ call.texto = <<"TAB", "Aacute", " ">>
    /\ ret.val = <<"a">>
    /\ eliminar_tildes_y_normalizar(ret.val) = ret.val

\* one character without its diacritic and in lower case
C14_Base(c) ==
    CASE c \in {"Aacute", "aacute"} -> "a"
      [] c \in {"Iacute", "iacute"} -> "i"
      [] c \in {"Uacute", "uacute"} -> "u"
      [] c \in {"Ntilde", "ntilde"} -> "n"
      [] c \in Range(Uppers) -> Lowers[IndexOf(Uppers, c)]
      [] OTHER -> c

\* the text without combining marks, every character taken to its base
C14_Letras(x) ==
    LET sinMarcas == SelectSeq(x, LAMBDA c : c \notin Mn)
    IN  [i \in 1..Len(sinMarcas) |-> C14_Base(sinMarcas[i])]

\* the words of a text, joined again by single blanks
RECURSIVE C14_Unir(_, _)
C14_Unir(x, palabra) ==
    IF x = <<>> THEN palabra
    ELSE IF Head(x) \in Whitespace
         THEN IF palabra = <<>> THEN C14_Unir(Tail(x), <<>>)
              ELSE LET resto == C14_Unir(Tail(x), <<>>)
                   IN  IF resto = <<>> THEN palabra ELSE palabra \o <<" ">> \o resto
         ELSE C14_Unir(Tail(x), Append(palabra, Head(x)))

\* C14: the normaliser never raises; a string comes back without diacritics,
\* in lower case, trimmed and with every run of white space collapsed to one
\* blank; a value that is no string, or null, comes back unchanged.
C14_Total ==
    (call.fn = "eliminar_tildes_y_normalizar" /\ Returned)
        => /\ ret.exc = "none"
           /\ call.texto \in NoStrings => ret.val = call.texto
           /\ call.texto \notin NoStrings => ret.val = C14_Unir(C14_Letras(call.texto), <<>>)

\* a string of two words and a value that is no string have both come back
C14_Witness ==
    /\ call.fn = "eliminar_tildes_y_normalizar"
    /\ Returned
    /\ \/ call.texto = <<"A", "TAB", "ntilde">> /\ ret.val = <<"a", " ", "n">>
       \/ call.texto = <<"<NaT>">> /\ ret.val = <<"<NaT>">>

(***************************************************************************)
(* Spec: one run of procesar_licitaciones_y_generar_ranking.  The tenders  *)
(* of the two monthly downloads are drawn from a pool that holds a code on *)
(* several rows, rows of equal total, a row that scores nothing, a health  *)
(* organism and a tender published before the minimum date; one download  *)
(* may be a block of more than Top100 tenders.                             *)
(***************************************************************************)
\* the most rows one download draws from the pool
MaxFilas == 2

Licitacion(codigo, nombre, organismo, rubro3, producto, tipo, duracion, inicio) ==
    ("Nombre producto genrico" :> <<>>)
        @@ [CodigoExterno |-> codigo, Nombre |-> nombre, CodigoEstado |-> <<"5">>,
            FechaInicio |-> inicio, FechaCierre |-> <<"3">>, Descripcion |-> None,
            NombreOrganismo |-> organismo, Rubro3 |-> rubro3, Tipo |-> tipo,
            CantidadReclamos |-> <<"0">>, TiempoDuracionContrato |-> duracion,
            Link |-> <<"l">>, CodigoProductoONU |-> producto]

Hospital == <<"H", "O", "S", "P", "I", "T", "A", "L">>

LicA1 == Licitacion(<<"A">>, <<"a">>, <<"m">>, <<"r">>, <<"1", ".", "0">>, <<"L", "E">>, <<"3">>, <<"3">>)

\* the code of LicA1 again, with a greater total and fewer category points
LicA2 == Licitacion(<<"A">>, <<"b">>, <<"n">>, <<>>, None, <<"L", "P">>, <<"1", "0">>, <<"3">>)

\* the code of LicA1 again, with the scores of LicA1 and another name
LicA3 == Licitacion(<<"A">>, <<"a", " ", "a">>, <<"m">>, <<"r">>, <<"1">>, <<"L", "E">>, <<"3">>, <<"3">>)

LicB == Licitacion(<<"B">>, <<"Aacute">>, <<"n">>, <<>>, None, <<"L", "E">>, <<"4">>, <<"3">>)

\* a tender that scores nothing
LicC == Licitacion(<<"C">>, <<"b">>, <<"n">>, <<>>, None, <<"L", "1">>, <<"0">>, <<"3">>)

\* a tender of a health organism
LicD == Licitacion(<<"D">>, <<"a">>, Hospital, <<"r">>, <<"1">>, <<"L", "P">>, <<"1">>, <<"3">>)

\* a tender published before the minimum date
LicE == Licitacion(<<"E">>, <<"a">>, <<"m">>, <<"r">>, <<"1">>, <<"L", "P">>, <<"1">>, <<"1">>)

FilasPool == {LicA1, LicA2, LicA3, LicB, LicC, LicD, LicE}

\* a tender that is awarded (state 8), not published (state 5)
LicG ==
    [Licitacion(<<"G">>, <<"a">>, <<"m">>, <<"r">>, <<"1">>, <<"L", "E">>, <<"5">>, <<"3">>)
        EXCEPT !["CodigoEstado"] = <<"8">>]

\* a tender that closes before the minimum closing date
LicH ==
    [Licitacion(<<"H">>, <<"a">>, <<"m">>, <<"r">>, <<"1">>, <<"L", "E">>, <<"5">>, <<"3">>)
        EXCEPT !["FechaCierre"] = <<"1">>]

\* a tender without publication date
LicI == Licitacion(<<"I">>, <<"a">>, <<"m">>, <<"r">>, <<"1">>, <<"L", "E">>, <<"5">>, None)

\* a tender whose closing date is no date
LicJ ==
    [Licitacion(<<"J">>, <<"a">>, <<"m">>, <<"r">>, <<"1">>, <<"L", "E">>, <<"5">>, <<"3">>)
        EXCEPT !["FechaCierre"] = <<"x">>]

InstitutoDeNeurocirugia ==
    <<"I", "n", "s", "t", "i", "t", "u", "t", "o", " ", "d", "e", " ", "N",
      "e", "u", "r", "o", "c", "i", "r", "u", "g", "iacute", "a">>

\* a tender of a health organism whose name is written with an accent
LicK ==
    Licitacion(<<"K">>, <<"a">>, InstitutoDeNeurocirugia, <<"r">>, <<"1">>,
               <<"L", "E">>, <<"5">>, <<"3">>)

\* the downloads that hold one of the tenders above
TablasEspeciales == {<<LicG, LicB>>, <<LicH, LicI>>, <<LicJ, LicA1>>, <<LicK, LicD>>}

\* a block of n tenders that differ in their code only
Relleno(n) ==
    [i \in 1..n |->
        Licitacion(<<"F">> \o DecStr(i), <<"b">>, <<"n">>, <<"r">>, None,
                   <<"L", "E">>, <<"1", "0">>, <<"3">>)]

RECURSIVE TablasHasta(_, _)
TablasHasta(filas, n) ==
    IF n = 0 THEN {<<>>}
    ELSE LET menores == TablasHasta(filas, n - 1)
         IN  menores \cup {Append(t, f) : t \in {m \in menores : Len(m) = n - 1}, f \in filas}

\* a download: it failed, or the rows of its CSV files
Descargas(tablas) ==
    {[falla |-> TRUE, filas |-> <<>>]} \cup {[falla |-> FALSE, filas |-> t] : t \in tablas}

FilaSicep ==
    [Titulo |-> <<"a">>, Descripcion |-> <<"a">>, Operacion |-> <<"o">>, Ciudad |-> <<"c">>,
     Categoria |-> <<"r">>, FechaPublicacion |-> <<"3">>, FechaCierre |-> <<"3">>,
     Link |-> <<"l">>]

PonderacionesCeldas ==
    { [col \in Range(PuntajeCols) |->
          CASE col = "Puntaje Rubro" -> <<"4", "0", "%">>
            [] col = "Puntaje Palabra" -> <<"3", "0", "%">>
            [] col = "Puntaje Monto" -> <<"2", "0", "%">>
            [] col = "Puntaje Clientes" -> <<"1", "0", "%">>],
      [col \in Range(PuntajeCols) |->
          IF col = "Puntaje Monto" THEN <<"1", "0", "0", "%">> ELSE <<"0", "%">>],
      [col \in Range(PuntajeCols) |->
          IF col = "Puntaje Clientes" THEN <<"x">> ELSE <<"2", "5", "%">>] }

\* weight cells that are not a number followed by a percent sign: a number
\* without the sign, and a cell that is missing
PonderacionesSinFormato ==
    { [col \in Range(PuntajeCols) |->
          IF col = "Puntaje Rubro" THEN <<"4", "0">> ELSE <<"2", "0", "%">>],
      [col \in Range(PuntajeCols) |->
          IF col = "Puntaje Palabra" THEN None ELSE <<"2", "5", "%">>] }

FechasCeldas ==
    { <<<<<<"2">>>>, <<<<"2">>>>>>, <<<<<<"2">>>>, <<<<"x">>>>>>, <<<<<<"2">>>>>> }

\* the settings the run scores with, as the readers of the sheets return them
Configuracion ==
    [palabras_clave |-> {<<"a">>},
     lista_negra |-> {},
     rubros_y_productos |-> (<<"r">> :> <<<<"1">>>>),
     puntaje_clientes |-> (<<"m">> :> 10)]

LedgerViejo ==
    [cabecera |-> COLUMNAS_IMPORTANTES,
     filas |-> serializar(<<Licitacion(<<"Z">>, <<"a">>, <<"m">>, <<>>, None,
                                        <<"L", "E">>, <<"2">>, <<"1">>)>>)]

\* stop_after_attempt(5) of the two decorated functions
MaxIntentos == 5

\* the calls of the run to the sheets backend, by the step that makes them
Sitios ==
    { <<"ObtenerHojas", "open_by_key">>, <<"ObtenerHojas", "get_worksheet_with_retry">>,
      <<"LeerFechas", "get">>,
      <<"IntegrarSicep", "clear">>, <<"IntegrarSicep", "actualizar_hoja">>,
      <<"ActualizarHoja7", "clear">>, <<"ActualizarHoja7", "actualizar_hoja">>,
      <<"EliminarSeleccionadas", "col_values">>, <<"EliminarSeleccionadas", "get_all_values">>,
      <<"EliminarSeleccionadas", "clear">>, <<"EliminarSeleccionadas", "actualizar_hoja">>,
      <<"LeerHoja7", "get_all_values">>,
      <<"CalcularPuntajes", "get">>,
      <<"SubirNoRelativos", "clear">>, <<"SubirNoRelativos", "actualizar_hoja">>,
      <<"SubirRanking", "acell">>, <<"SubirRanking", "clear">>, <<"SubirRanking", "update">>,
      <<"SubirRanking", "actualizar_hoja">> }

\* the backend answers every call
SinFallo == [donde |-> <<"ninguno", "ninguno">>, tipo |-> "ninguno", veces |-> 0]

\* what the backend does wrong in a run: at one call it answers `veces`
\* attempts in a row with an APIError that is transient (quota, server
\* error) or permanent (permission, not found: every attempt fails), or the
\* spreadsheet or the worksheet looked up does not exist
Fallos ==
    [donde : Sitios, tipo : {"transitorio"}, veces : 1..MaxIntentos]
        \cup [donde : Sitios, tipo : {"permanente"}, veces : {MaxIntentos}]
        \cup [donde : {s \in Sitios : s[1] = "ObtenerHojas"}, tipo : {"no encontrada"},
              veces : {MaxIntentos}]

\* the runs over the tenders of the pool
EntradasChicas ==
    [fechas : FechasCeldas,
     actual : Descargas(TablasHasta(FilasPool, MaxFilas) \cup TablasEspeciales),
     anterior : Descargas({<<>>, <<LicA1>>}),
     sicep : Descargas({<<FilaSicep>>}),
     seleccion : {<<>>, <<<<"b">>, <<>>>>},
     config : {Configuracion},
     ponderaciones : PonderacionesCeldas,
     fallo : {SinFallo}]

\* the runs over a block of more than Top100 tenders
EntradasGrandes ==
    [fechas : {<<<<<<"2">>>>, <<<<"2">>>>>>},
     actual : {[falla |-> FALSE, filas |-> Relleno(Top100 + 1)]},
     anterior : Descargas({<<LicA1>>, <<LicA2>>, <<LicB>>}),
     sicep : {[falla |-> FALSE, filas |-> <<>>]},
     seleccion : {<<>>},
     config : {Configuracion},
     ponderaciones : {c \in PonderacionesCeldas : obtener_ponderaciones(c).exc = "none"},
     fallo : {SinFallo}]

\* the runs in which the backend fails: two tenders pass the dates and one of
\* them is selected for removal, so that every call of the run is made
EntradasConFallo ==
    [fechas : {<<<<<<"2">>>>, <<<<"2">>>>>>},
     actual : {[falla |-> FALSE, filas |-> <<LicB, LicA1>>]},
     anterior : {[falla |-> FALSE, filas |-> <<LicA2>>]},
     sicep : {[falla |-> FALSE, filas |-> <<FilaSicep>>]},
     seleccion : {<<<<"b">>, <<>>>>},
     config : {Configuracion},
     ponderaciones : {c \in PonderacionesCeldas : obtener_ponderaciones(c).exc = "none"}
                        \cup PonderacionesSinFormato,
     fallo : Fallos \cup {SinFallo}]

\* a call to the backend, as the function that makes it is decorated: with
\* @retry an APIError is tried again until the call answers or MaxIntentos
\* attempts are spent, and then RetryError is raised; any other exception,
\* and any exception of a call that is not decorated, is raised at once
llamar(sitio, fallo) ==
    IF fallo.donde # sitio THEN [intentos |-> 1, exc |-> "none"]
    ELSE IF fallo.tipo = "no encontrada"
    THEN [intentos |-> 1,
          exc |-> IF sitio[2] = "open_by_key" THEN "SpreadsheetNotFound"
                  ELSE "WorksheetNotFound"]
    ELSE IF sitio[2] \notin {"get_worksheet_with_retry", "actualizar_hoja"}
    THEN [intentos |-> 1, exc |-> "APIError"]
    ELSE IF fallo.veces >= MaxIntentos
    THEN [intentos |-> MaxIntentos, exc |-> "RetryError"]
    ELSE [intentos |-> fallo.veces + 1, exc |-> "none"]

\* the call at sitio raises
Aborta(sitio) == llamar(sitio, entrada.fallo).exc # "none"

\* the step made the calls of sitios: the one the backend failed at is kept
\* in call, with its attempts, and what came of it in ret
Registrar(sitios) ==
    IF entrada.fallo.donde \in sitios
    THEN /\ call' = [fn |-> entrada.fallo.donde[2], paso |-> entrada.fallo.donde[1],
                     intentos |-> llamar(entrada.fallo.donde, entrada.fallo).intentos]
         /\ ret' = IF Aborta(entrada.fallo.donde)
                   THEN Raises(llamar(entrada.fallo.donde, entrada.fallo).exc)
                   ELSE Returns(Zero)
    ELSE UNCHANGED <<call, ret>>

\* the calls a step makes, in their order, up to the first that raises
HastaElFallo(sitios) ==
    {sitios[i] : i \in {j \in 1..Len(sitios) : \A k \in 1..(j - 1) : ~Aborta(sitios[k])}}

\* the ranking sheet: its cell A1, the cell its table was written from, and
\* the table
\* the variant that writes the table from A1
actualizar_rango_desde_a1(hoja, rango, cabecera, filas) ==
    [A1 |-> <<cabecera[1]>>, desde |-> "A1", cabecera |-> cabecera, filas |-> filas]

\* worksheet.update(rango, .) on the ranking sheet: a table written from A1
\* takes the cell A1 for the first cell of its header
actualizar_rango(hoja, rango, cabecera, filas) ==
    [A1 |-> IF rango = "A1" THEN <<cabecera[1]>> ELSE hoja.A1,
     desde |-> rango, cabecera |-> cabecera, filas |-> filas]

\* worksheet.clear() on the ranking sheet
RankingVacio == [A1 |-> <<>>, desde |-> "", cabecera |-> <<>>, filas |-> <<>>]

Init ==
    /\ call = <<>> /\ ret = Pending
    /\ pc = "main"
    /\ \/ /\ entrada \in EntradasChicas /\ hoja7 \in {HojaVacia, LedgerViejo}
          /\ hoja2 = [RankingVacio EXCEPT !.A1 = <<"t">>]
       \/ /\ entrada \in EntradasGrandes /\ hoja7 = HojaVacia
          /\ hoja2 = [RankingVacio EXCEPT !.A1 = <<"t">>]
       \/ /\ entrada \in EntradasConFallo /\ hoja7 = LedgerViejo
          /\ \E a1 \in {<<"t">>, <<>>, None} : hoja2 = [RankingVacio EXCEPT !.A1 = a1]
    /\ hoja8 = HojaVacia /\ hoja11 = HojaVacia
    /\ df = <<>> /\ df_unique = <<>> /\ df_top_100 = <<>> /\ data_final = <<>>

\* main, lines 1392-1416: the spreadsheet is opened and its nine worksheets
\* are looked up; an exception ends the run
ObtenerHojas ==
    /\ pc = "main"
    /\ LET sitios == <<<<"ObtenerHojas", "open_by_key">>,
                       <<"ObtenerHojas", "get_worksheet_with_retry">>>>
       IN  /\ Registrar(HastaElFallo(sitios))
           /\ pc' = IF \E i \in 1..Len(sitios) : Aborta(sitios[i]) THEN "error" ELSE "inicio"
    /\ UNCHANGED <<entrada, hoja2, hoja7, hoja8, hoja11, df, df_unique, df_top_100, data_final>>

\* lines 676-689: the minimum dates are read; ValueError ends the run
LeerFechas ==
    /\ pc = "inicio"
    /\ Registrar({<<"LeerFechas", "get">>})
    /\ pc' = IF ~Aborta(<<"LeerFechas", "get">>) /\ leer_fechas(entrada.fechas).exc = "none"
             THEN "descargar" ELSE "error"
    /\ UNCHANGED <<entrada, hoja2, hoja7, hoja8, hoja11,
                   df, df_unique, df_top_100, data_final>>

\* lines 711-712: the two monthly downloads; one that fails is an empty table
Descargar ==
    /\ pc = "descargar"
    /\ df' = concat(entrada.actual.filas, entrada.anterior.filas)
    /\ pc' = "sicep"
    /\ UNCHANGED <<llamada, entrada, hoja2, hoja7, hoja8, hoja11,
                   df_unique, df_top_100, data_final>>

\* lines 715-716: integrar_licitaciones_sicep clears its sheet and writes its
\* rows, which join the table; a scrape that fails, and a call to the sheet
\* that raises, end the run
IntegrarSicep ==
    /\ pc = "sicep"
    /\ IF entrada.sicep.falla
       THEN pc' = "error" /\ UNCHANGED <<llamada, hoja11, df>>
       ELSE LET df_sicep == [i \in 1..Len(entrada.sicep.filas) |->
                                renombrar_sicep(entrada.sicep.filas[i])]
                clear == <<"IntegrarSicep", "clear">>
                actualizar_hoja == <<"IntegrarSicep", "actualizar_hoja">>
            IN  /\ Registrar(HastaElFallo(<<clear, actualizar_hoja>>))
                /\ IF Aborta(clear) THEN pc' = "error" /\ UNCHANGED <<hoja11, df>>
                   ELSE IF Aborta(actualizar_hoja)
                   THEN pc' = "error" /\ hoja11' = HojaVacia /\ UNCHANGED df
                   ELSE /\ hoja11' = [cabecera |-> columnas_obligatorias,
                                      filas |-> serializar(df_sicep)]
                        /\ df' = concat(df, df_sicep)
                        /\ pc' = "filtrar"
    /\ UNCHANGED <<entrada, hoja2, hoja7, hoja8, df_unique, df_top_100, data_final>>

\* lines 719-741: the columns are cleaned, the dates parsed, and the rows
\* before the minimum dates dropped
FiltrarFechas ==
    /\ pc = "filtrar"
    /\ df' = filtrar_fechas([i \in 1..Len(df) |-> convertir_fechas(normalizar_columnas(df[i]))],
                            leer_fechas(entrada.fechas))
    /\ pc' = "hoja7"
    /\ UNCHANGED <<llamada, entrada, hoja2, hoja7, hoja8, hoja11,
                   df_unique, df_top_100, data_final>>

\* lines 744-771: the ledger is cleared and the new tenders written to it, if
\* there are any
ActualizarHoja7 ==
    /\ pc = "hoja7"
    /\ LET clear == <<"ActualizarHoja7", "clear">>
           actualizar_hoja == <<"ActualizarHoja7", "actualizar_hoja">>
       IN  IF df = <<>> THEN pc' = "eliminar" /\ UNCHANGED <<llamada, hoja7>>
           ELSE /\ Registrar(HastaElFallo(<<clear, actualizar_hoja>>))
                /\ IF Aborta(clear) THEN pc' = "error" /\ UNCHANGED hoja7
                   ELSE IF Aborta(actualizar_hoja) THEN pc' = "error" /\ hoja7' = HojaVacia
                   ELSE /\ hoja7' = [cabecera |-> COLUMNAS_IMPORTANTES,
                                     filas |-> serializar(
                                                  seleccionar_columnas(df, COLUMNAS_IMPORTANTES))]
                        /\ pc' = "eliminar"
    /\ UNCHANGED <<entrada, hoja2, hoja8, hoja11,
                   df, df_unique, df_top_100, data_final>>

\* line 775: the selected tenders leave the ledger: the selection is read,
\* then the ledger, and the ledger is cleared and written when a row goes
EliminarSeleccionadas ==
    /\ pc = "eliminar"
    /\ LET col_values == <<"EliminarSeleccionadas", "col_values">>
           get_all_values == <<"EliminarSeleccionadas", "get_all_values">>
           clear == <<"EliminarSeleccionadas", "clear">>
           actualizar_hoja == <<"EliminarSeleccionadas", "actualizar_hoja">>
           despues == eliminar_licitaciones_seleccionadas(entrada.seleccion, hoja7)
           sitios == IF codigos_seleccionados_normalizados(entrada.seleccion) = {}
                     THEN <<col_values>>
                     ELSE IF despues = hoja7 THEN <<col_values, get_all_values>>
                     ELSE <<col_values, get_all_values, clear, actualizar_hoja>>
       IN  /\ Registrar(HastaElFallo(sitios))
           /\ IF \E i \in 1..Len(sitios) : Aborta(sitios[i])
              THEN /\ pc' = "error"
                   /\ hoja7' = IF Aborta(actualizar_hoja) THEN HojaVacia ELSE hoja7
              ELSE pc' = "leer" /\ hoja7' = despues
    /\ UNCHANGED <<entrada, hoja2, hoja8, hoja11,
                   df, df_unique, df_top_100, data_final>>

\* lines 778-819: the ledger is read back; the run returns when it holds no
\* tender; the columns are cleaned and the health organisms dropped
LeerHoja7 ==
    /\ pc = "leer"
    /\ Registrar({<<"LeerHoja7", "get_all_values">>})
    /\ IF Aborta(<<"LeerHoja7", "get_all_values">>) THEN pc' = "error" /\ UNCHANGED df
       ELSE IF NumFilasHoja(hoja7) < 2
       THEN pc' = "retorno" /\ UNCHANGED df
       ELSE /\ df' = excluir_salud([i \in 1..Len(hoja7.filas) |->
                                       convertir_fechas(normalizar_columnas(hoja7.filas[i]))])
            /\ pc' = "puntajes"
    /\ UNCHANGED <<entrada, hoja2, hoja7, hoja8, hoja11,
                   df_unique, df_top_100, data_final>>

\* lines 825-850: the settings are read and the rows scored.  A read that
\* raises ends the run, and a weight that is no number is a ValueError.  On a
\* table without rows, what apply() gives for the lambda that reads
\* row['Tipo'] depends on the pandas installed: the assignment of the column
\* raises, or the table stays empty
CalcularPuntajes ==
    /\ pc = "puntajes"
    /\ Registrar({<<"CalcularPuntajes", "get">>})
    /\ \E falla \in BOOLEAN :
          IF \/ Aborta(<<"CalcularPuntajes", "get">>)
             \/ obtener_ponderaciones(entrada.ponderaciones).exc # "none"
             \/ (df = <<>> /\ falla)
          THEN pc' = "error" /\ UNCHANGED df
          ELSE df' = MapRows(df, entrada.config) /\ pc' = "duplicados"
    /\ UNCHANGED <<entrada, hoja2, hoja7, hoja8, hoja11,
                   df_unique, df_top_100, data_final>>

\* line 857: the rows are sorted by 'Puntaje Total', descending, and the first
\* row of each code is kept
EliminarDuplicados ==
    /\ pc = "duplicados"
    /\ \E orden \in OrdenesDesc(df, "Puntaje Total") : df_unique' = drop_duplicates(orden)
    /\ pc' = "hoja8"
    /\ UNCHANGED <<llamada, entrada, hoja2, hoja7, hoja8, hoja11, df, df_top_100, data_final>>

\* the variant that goes on without writing the sheet of non-relative scores
SubirNoRelativos_sin_subir ==
    /\ pc = "hoja8"
    /\ pc' = "top100"
    /\ UNCHANGED <<llamada, entrada, hoja2, hoja7, hoja8, hoja11, df, df_unique, df_top_100,
                   data_final>>

\* lines 864-883: the sheet of non-relative scores is cleared and the scores
\* written to it
SubirNoRelativos ==
    /\ pc = "hoja8"
    /\ LET clear == <<"SubirNoRelativos", "clear">>
           actualizar_hoja == <<"SubirNoRelativos", "actualizar_hoja">>
       IN  /\ Registrar(HastaElFallo(<<clear, actualizar_hoja>>))
           /\ IF Aborta(clear) THEN pc' = "error" /\ UNCHANGED hoja8
              ELSE IF Aborta(actualizar_hoja) THEN pc' = "error" /\ hoja8' = HojaVacia
              ELSE /\ hoja8' = [cabecera |-> ColumnasNoRelativos,
                                filas |-> serializar(
                                             seleccionar_columnas(df_unique, ColumnasNoRelativos))]
                   /\ pc' = "top100"
    /\ UNCHANGED <<entrada, hoja2, hoja7, hoja11, df, df_unique, df_top_100, data_final>>

\* lines 886-921: the Top-N, its column totals, the relative columns and the
\* final score
SeleccionarTop100 ==
    /\ pc = "top100"
    /\ df_top_100' = ajustar_relativos(seleccionar_top_100(df_unique), df_unique,
                                       obtener_ponderaciones(entrada.ponderaciones).val)
    /\ pc' = "ordenar"
    /\ UNCHANGED <<llamada, entrada, hoja2, hoja7, hoja8, hoja11, df, df_unique, data_final>>

\* lines 924-965: the Top-N is sorted by its final score, descending, and
\* numbered; the rows of the ranking are built and rounded
OrdenarTop100 ==
    /\ pc = "ordenar"
    /\ \E orden \in ordenar_por_final(df_top_100) :
          /\ df_top_100' = numerar(orden)
          /\ data_final' = serializar(filas_finales(numerar(orden)))
    /\ pc' = "hoja2"
    /\ UNCHANGED <<llamada, entrada, hoja2, hoja7, hoja8, hoja11, df, df_unique>>

\* lines 968-976: cell A1 of the ranking sheet is read, the sheet cleared,
\* A1 written back and the ranking written from A3
SubirRanking ==
    /\ pc = "hoja2"
    /\ LET acell == <<"SubirRanking", "acell">>
           clear == <<"SubirRanking", "clear">>
           update == <<"SubirRanking", "update">>
           actualizar_hoja == <<"SubirRanking", "actualizar_hoja">>
           nombre_a1 == IF hoja2.A1 # None /\ hoja2.A1 # <<>> THEN hoja2.A1 ELSE <<>>
       IN  /\ Registrar(HastaElFallo(<<acell, clear, update, actualizar_hoja>>))
           /\ IF Aborta(acell) THEN pc' = "error" /\ UNCHANGED hoja2
              ELSE IF Aborta(clear) THEN pc' = "error" /\ UNCHANGED hoja2
              ELSE IF Aborta(update)
              THEN pc' = "error" /\ hoja2' = RankingVacio
              ELSE IF Aborta(actualizar_hoja)
              THEN pc' = "error" /\ hoja2' = [RankingVacio EXCEPT !.A1 = nombre_a1]
              ELSE /\ hoja2' = actualizar_rango([RankingVacio EXCEPT !.A1 = nombre_a1],
                                                "A3", ColumnasFinal, data_final)
                   /\ pc' = "fin"
    /\ UNCHANGED <<entrada, hoja7, hoja8, hoja11, df, df_unique, df_top_100, data_final>>

Next ==
    \/ ObtenerHojas \/ LeerFechas \/ Descargar \/ IntegrarSicep \/ FiltrarFechas
    \/ ActualizarHoja7 \/ EliminarSeleccionadas \/ LeerHoja7 \/ CalcularPuntajes
    \/ EliminarDuplicados \/ SubirNoRelativos \/ SeleccionarTop100 \/ OrdenarTop100
    \/ SubirRanking

Spec == Init /\ [][Next]_vars

(***************************************************************************)
(* Claims about the run.                                                   *)
(***************************************************************************)
CodigosUnicos(t) ==
    \A i, j \in 1..Len(t) : i # j => t[i]["CodigoExterno"] # t[j]["CodigoExterno"]

\* the tenders scored hold a code on more than one row
CodigoRepetido(t) ==
    \E i, j \in 1..Len(t) : i # j /\ t[i]["CodigoExterno"] = t[j]["CodigoExterno"]

\* C1: after deduplication no two rows share a CodigoExterno: not in the
\* deduplicated table, not in the Top-N, not in the rows of the ranking and not
\* in the ranking sheet, whatever rows the scored table held
C1_CodigoUnico ==
    /\ CodigosUnicos(df_unique)
    /\ CodigosUnicos(df_top_100)
    /\ CodigosUnicos(data_final)
    /\ CodigosUnicos(hoja2.filas)

\* a ranking of two tenders or more is published from a scored table that held
\* a code on several rows
C1_Witness ==
    /\ pc = "fin"
    /\ CodigoRepetido(df)
    /\ Len(hoja2.filas) >= 2

EsSumaDeCuatro(row) ==
    row["Puntaje Total"] =
        RAdd(RAdd(RAdd(row["Puntaje Rubro"], row["Puntaje Palabra"]), row["Puntaje Monto"]),
             row["Puntaje Clientes"])

\* the scored tables of the run
Puntuadas == pc \in {"duplicados", "hoja8", "top100", "ordenar", "hoja2", "fin"}

\* C2: 'Puntaje Total' of every scored tender is the plain sum of its four
\* scores, and so it is on every row of the sheet of non-relative scores
C2_TotalEsSuma ==
    /\ Puntuadas => \A i \in 1..Len(df) : EsSumaDeCuatro(df[i])
    /\ \A i \in 1..Len(hoja8.filas) : EsSumaDeCuatro(hoja8.filas[i])

\* the sheet of non-relative scores holds a tender whose four scores are all
\* positive, one of them no whole number
C2_Witness ==
    /\ pc = "fin"
    /\ \E i \in 1..Len(hoja8.filas) :
          /\ \A k \in 1..Len(PuntajeCols) : RLt(Zero, hoja8.filas[i][PuntajeCols[k]])
          /\ hoja8.filas[i]["Puntaje Monto"].d # 1

\* the Top-N has its relative columns
ConRelativos == pc \in {"ordenar", "hoja2", "fin"}

C3_Columna(col) ==
    LET total == SumCol(df_top_100, col)
    IN  /\ RLt(Zero, total) => SumCol(df_top_100, RelativoCol(col)) = OfInt(100)
        /\ total = Zero =>
               \A i \in 1..Len(df_top_100) : df_top_100[i][RelativoCol(col)] = Zero

\* C3: for each of the four score columns, when its total over the Top-N is
\* positive its relative column sums to 100 over the Top-N, and when its total
\* is 0 its relative column is 0 on every row of the Top-N
C3_RelativosSuman100 ==
    ConRelativos => \A k \in 1..Len(PuntajeCols) : C3_Columna(PuntajeCols[k])

\* a Top-N cut from more tenders than Top100, with a column of positive total
\* and a column of total 0
C3_Witness ==
    /\ ConRelativos
    /\ Len(df_unique) > Top100
    /\ Len(df_top_100) = Top100
    /\ \E k \in 1..Len(PuntajeCols) : RLt(Zero, SumCol(df_top_100, PuntajeCols[k]))
    /\ \E k \in 1..Len(PuntajeCols) : SumCol(df_top_100, PuntajeCols[k]) = Zero

\* row a stands before row b in the descending order of (category, keyword,
\* monetary, client) scores
C4_Precede(a, b) ==
    \/ RLt(b["Puntaje Rubro"], a["Puntaje Rubro"])
    \/ /\ a["Puntaje Rubro"] = b["Puntaje Rubro"]
       /\ \/ RLt(b["Puntaje Palabra"], a["Puntaje Palabra"])
          \/ /\ a["Puntaje Palabra"] = b["Puntaje Palabra"]
             /\ \/ RLt(b["Puntaje Monto"], a["Puntaje Monto"])
                \/ /\ a["Puntaje Monto"] = b["Puntaje Monto"]
                   /\ RLt(b["Puntaje Clientes"], a["Puntaje Clientes"])

\* the deduplicated tenders that are not in the Top-N
C4_Fuera ==
    {i \in 1..Len(df_unique) :
        \A j \in 1..Len(df_top_100) :
            df_top_100[j]["CodigoExterno"] # df_unique[i]["CodigoExterno"]}

\* C4: the Top-N holds min(Top100, number of deduplicated tenders) of the
\* deduplicated tenders, no tender outside it stands before a tender inside
\* it in the order of the four scores, and before the final sort its rows are
\* in that order
C4_TopNPorTupla ==
    ConRelativos =>
        /\ Len(df_top_100) = MinOf(Top100, Len(df_unique))
        /\ \A j \in 1..Len(df_top_100) :
              \E i \in 1..Len(df_unique) :
                  \A col \in DOMAIN df_unique[i] : df_top_100[j][col] = df_unique[i][col]
        /\ \A i \in C4_Fuera : \A j \in 1..Len(df_top_100) :
              ~C4_Precede(df_unique[i], df_top_100[j])
        /\ pc = "ordenar" =>
              \A i, j \in 1..Len(df_top_100) :
                  i < j => ~C4_Precede(df_top_100[j], df_top_100[i])

\* a Top-N cut from more tenders than Top100 that leaves out a tender whose
\* total is greater than the total of a tender it holds
C4_Witness ==
    /\ pc = "ordenar"
    /\ Len(df_unique) > Top100
    /\ \E i \in C4_Fuera : \E j \in 1..Len(df_top_100) :
          RLt(df_top_100[j]["Puntaje Total"], df_unique[i]["Puntaje Total"])

\* the ranking is built
Ordenado == pc \in {"hoja2", "fin"}

\* C5: the rows of the ranking are in non-increasing order of the final score,
\* the sum of relative score times weight over the four criteria, rounded to 2
\* decimals or not, and row k bears the number k; so does the ranking sheet
\* once it is written
C5_RankingOrdenado ==
    /\ Ordenado =>
          /\ Len(data_final) = Len(df_top_100)
          /\ \A k \in 1..Len(data_final) :
                /\ data_final[k]["#"] = k
                /\ df_top_100[k]["Puntaje Total SUMAPRODUCTO"] =
                       suma_producto(df_top_100[k],
                                     obtener_ponderaciones(entrada.ponderaciones).val)
                /\ data_final[k]["Puntaje Final"] =
                       round2(df_top_100[k]["Puntaje Total SUMAPRODUCTO"])
                /\ data_final[k]["CodigoExterno"] = df_top_100[k]["CodigoExterno"]
          /\ \A k \in 1..(Len(data_final) - 1) :
                /\ RLe(df_top_100[k + 1]["Puntaje Total SUMAPRODUCTO"],
                       df_top_100[k]["Puntaje Total SUMAPRODUCTO"])
                /\ RLe(data_final[k + 1]["Puntaje Final"], data_final[k]["Puntaje Final"])
    /\ \A k \in 1..Len(hoja2.filas) :
          /\ hoja2.filas[k]["#"] = k
          /\ k < Len(hoja2.filas) =>
                RLe(hoja2.filas[k + 1]["Puntaje Final"], hoja2.filas[k]["Puntaje Final"])

\* a ranking is published whose first row does not come first in the order the
\* Top-N was cut in, and whose final scores differ
C5_Witness ==
    /\ pc = "fin"
    /\ Len(hoja2.filas) >= 2
    /\ \E k \in 2..Len(df_top_100) : C4_Precede(df_top_100[k], df_top_100[1])
    /\ RLt(hoja2.filas[2]["Puntaje Final"], hoja2.filas[1]["Puntaje Final"])

\* the codes of the downloaded tenders whose state is not 5, "published"
C15_NoPublicadas ==
    {fila["CodigoExterno"] :
        fila \in {f \in Range(entrada.actual.filas) \cup Range(entrada.anterior.filas) :
                     f["CodigoEstado"] # <<"5">>}}

C15_SinCodigos(hoja) ==
    \A i \in 1..Len(hoja.filas) : hoja.filas[i]["CodigoExterno"] \notin C15_NoPublicadas

\* C15 as stated: only published tenders are kept: no tender of another
\* CodigoEstado is in the ledger, is scored, or is in the audit table or the
\* ranking.
C15_SoloPublicadas ==
    pc # "sin corrida"
        => /\ \A i \in 1..Len(hoja7.filas) : hoja7.filas[i]["CodigoEstado"] = <<"5">>
           /\ pc \in {"duplicados", "hoja8", "top100", "ordenar", "hoja2", "fin"}
                 => \A i \in 1..Len(df) : df[i]["CodigoEstado"] = <<"5">>
           /\ C15_SinCodigos(hoja8)
           /\ C15_SinCodigos(hoja2)

\* the day a downloaded cell stands for; -1 for a cell that is empty, null or
\* no date
C16_Dia(celda) ==
    IF celda # None /\ celda # <<>> /\ \A k \in 1..Len(celda) : celda[k] \in Range(Digits)
    THEN DecVal(celda) ELSE -1

C16_MinPublicacion == C16_Dia(entrada.fechas[1][1])

C16_MinCierre == C16_Dia(entrada.fechas[2][1])

\* the rows of the two monthly downloads
C16_Descargadas == Range(entrada.actual.filas) \cup Range(entrada.anterior.filas)

\* row, a row of the filtered table, is the downloaded row cruda
C16_Es(row, cruda) ==
    /\ row["CodigoExterno"] = cruda["CodigoExterno"]
    /\ row["Tipo"] = cruda["Tipo"]
    /\ row["TiempoDuracionContrato"] = cruda["TiempoDuracionContrato"]

\* C16: a newly downloaded tender is kept by the date filter only if its
\* publication date is on or after the minimum publication date and its
\* closing date on or after the minimum closing date; a tender whose
\* publication or closing date is missing or is no date is dropped, and the
\* run goes on.
C16_FiltroFechas ==
    pc = "hoja7"
        => /\ \A i \in 1..Len(df) :
                 /\ EsFecha(df[i]["FechaInicio"]) /\ EsFecha(df[i]["FechaCierre"])
                 /\ FechaVal(df[i]["FechaInicio"]) >= C16_MinPublicacion
                 /\ FechaVal(df[i]["FechaCierre"]) >= C16_MinCierre
           /\ \A cruda \in C16_Descargadas :
                 (C16_Dia(cruda["FechaInicio"]) < C16_MinPublicacion
                     \/ C16_Dia(cruda["FechaCierre"]) < C16_MinCierre)
                   => \A i \in 1..Len(df) : ~C16_Es(df[i], cruda)

\* the download held a tender closing too early and one without publication
\* date, next to a tender that passes: the filter ran and kept that one alone
C16_Witness ==
    /\ pc = "hoja7"
    /\ entrada.actual.filas = <<LicH, LicI>>
    /\ entrada.anterior.filas = <<LicA1>>
    /\ Len(df) = 1
    /\ df[1]["CodigoExterno"] = <<"A">>

\* the organism name holds an entry of SALUD_EXCLUIR, case and diacritics of
\* both left aside
C17_EsSalud(nombre) ==
    \E termino \in SALUD_EXCLUIR :
        LET n == eliminar_tildes_y_normalizar(nombre)
            t == eliminar_tildes_y_normalizar(termino)
        IN  \E i \in 0..(Len(n) - Len(t)) : \A k \in 1..Len(t) : n[i + k] = t[k]

C17_SinSalud(filas) ==
    \A i \in 1..Len(filas) : ~C17_EsSalud(filas[i]["NombreOrganismo"])

\* C17 as stated: every tender whose organism name holds an entry of the
\* health list, the entries written with accents included, is dropped before
\* the scoring and is in neither the audit table nor the ranking.
C17_SaludExcluida ==
    /\ pc \in {"puntajes", "duplicados", "hoja8", "top100", "ordenar", "hoja2", "fin"}
          => C17_SinSalud(df)
    /\ C17_SinSalud(hoja8.filas)
    /\ C17_SinSalud(hoja2.filas)

\* the codes of the selection sheet, case and diacritics left aside
C18_Seleccion ==
    {eliminar_tildes_y_normalizar(entrada.seleccion[i]) : i \in 1..Len(entrada.seleccion)}
        \ {<<>>}

C18_SinSeleccionadas(filas) ==
    \A i \in 1..Len(filas) :
        eliminar_tildes_y_normalizar(filas[i]["CodigoExterno"]) \notin C18_Seleccion

\* C18: once the selected tenders have been removed, no tender whose code,
\* case and diacritics left aside, is in the selection list is in the ledger
\* or among the rows read back from it, and none is in the audit table or
\* the ranking the run writes.
C18_SeleccionadasFuera ==
    /\ pc \in {"leer", "retorno", "puntajes", "duplicados", "hoja8", "top100", "ordenar",
                "hoja2", "fin"}
          => C18_SinSeleccionadas(hoja7.filas)
    /\ pc \in {"puntajes", "duplicados", "hoja8", "top100", "ordenar", "hoja2", "fin"}
          => C18_SinSeleccionadas(df)
    /\ C18_SinSeleccionadas(hoja8.filas)
    /\ C18_SinSeleccionadas(hoja2.filas)

\* tender B was downloaded and passed the dates, b is in the selection list,
\* and the run has written a ranking
C18_Witness ==
    /\ pc = "fin"
    /\ <<"b">> \in C18_Seleccion
    /\ entrada.actual.filas = <<LicB, LicA1>>
    /\ Len(hoja2.filas) = 1
    /\ hoja2.filas[1]["CodigoExterno"] = <<"A">>

\* the run has made the call the backend fails at
C19_LlamadaHecha == pc # "sin corrida" /\ ret.exc # "pending"

\* C19 as stated: every call to the backend that fails with a transient
\* error, a read, a clear and a write as much as a worksheet lookup and a
\* range update, is tried again, up to MaxIntentos attempts in all: it
\* succeeds when the backend answers within them, and when every attempt has
\* failed the error ends the run.
C19_TransitorioReintentado ==
    (C19_LlamadaHecha /\ entrada.fallo.tipo = "transitorio")
        => /\ call.intentos <= MaxIntentos
           /\ entrada.fallo.veces < MaxIntentos
                 => call.intentos = entrada.fallo.veces + 1 /\ ret.exc = "none"
           /\ entrada.fallo.veces >= MaxIntentos
                 => call.intentos = MaxIntentos /\ ret.exc # "none" /\ pc = "error"

\* C20 as stated: a call that meets a permanent error, be it a worksheet or
\* spreadsheet that does not exist or an API error response, is attempted
\* exactly once, and the run ends.
C20_PermanenteUnaVez ==
    (pc # "sin corrida" /\ ret.exc # "pending"
        /\ entrada.fallo.tipo \in {"permanente", "no encontrada"})
        => call.intentos = 1 /\ ret.exc # "none" /\ pc = "error"

\* the sources of tenders that failed in this run
C21_Fallidas ==
    {fuente \in {"actual", "anterior", "sicep"} :
        CASE fuente = "actual" -> entrada.actual.falla
          [] fuente = "anterior" -> entrada.anterior.falla
          [] fuente = "sicep" -> entrada.sicep.falla}

\* C21 as stated: the failure of a single source of tenders, a monthly
\* download or the SICEP scrape, does not end the run: with the backend
\* answering, the run goes on from the sources to the filter of dates, with
\* the rows of the sources that answered.
C21_FuenteNoFatal ==
    [][(pc = "sicep" /\ entrada.fallo = SinFallo /\ Cardinality(C21_Fallidas) = 1)
          => (pc' = "filtrar" /\ Len(df') >= Len(df))]_vars

\* C22: publishing the ranking keeps the title cell: a completed publish
\* leaves in A1 the value it held before (the empty text when it held none)
\* and the ranking written from A3; A1 is read before the clear and written
\* back before the rows, so a publish that breaks off has either left the
\* sheet as it was or cleared it, and has written no row.
C22_TituloPreservado ==
    [][pc = "hoja2"
          => /\ pc' = "fin"
                => /\ hoja2'.A1 = (IF hoja2.A1 \in {None, <<>>} THEN <<>> ELSE hoja2.A1)
                   /\ hoja2'.desde = "A3"
                   /\ hoja2'.cabecera = ColumnasFinal
                   /\ hoja2'.filas = data_final
             /\ pc' = "error"
                => \/ hoja2' = hoja2
                   \/ /\ hoja2'.filas = <<>> /\ hoja2'.cabecera = <<>>
                      /\ hoja2'.A1 \in {<<>>, hoja2.A1}]_vars

\* a ranking has been published on a sheet whose A1 held a title
C22_Witness ==
    /\ pc = "fin"
    /\ hoja2.A1 = <<"t">>
    /\ hoja2.desde = "A3"
    /\ Len(hoja2.filas) >= 1

\* a weight cell is percent-formatted: a number followed by one percent sign
C23_FormatoPorcentaje(celda) ==
    /\ celda # None
    /\ Len(celda) >= 2
    /\ celda[Len(celda)] = "%"
    /\ "%" \notin Range(SubSeq(celda, 1, Len(celda) - 1))
    /\ ParseFloat(SubSeq(celda, 1, Len(celda) - 1)).ok

\* the weights are loaded by the scoring step; once it is passed the run is
\* on its way to the sheet of non-relative scores and the ranking
C23_Cargadas == pc \in {"duplicados", "hoja8", "top100", "ordenar", "hoja2", "fin"}

\* C23: when one of the four weight cells is missing or is not
\* percent-formatted, loading the weights fails and the run ends before the
\* sheet of non-relative scores or the ranking is written; otherwise each
\* weight is the number of its cell divided by 100, whatever the four sum to.
C23_PonderacionesValidadas ==
    IF \E col \in Range(PuntajeCols) : ~C23_FormatoPorcentaje(entrada.ponderaciones[col])
    THEN /\ ~C23_Cargadas
         /\ hoja8 = HojaVacia
         /\ hoja2.filas = <<>>
    ELSE /\ obtener_ponderaciones(entrada.ponderaciones).exc = "none"
         /\ \A col \in Range(PuntajeCols) :
               LET celda == entrada.ponderaciones[col]
               IN  obtener_ponderaciones(entrada.ponderaciones).val[col]
                      = RDiv(ParseFloat(SubSeq(celda, 1, Len(celda) - 1)).val, OfInt(100))

\* the codes of the tenders the run fetched
C24_Codigos == {cruda["CodigoExterno"] : cruda \in C16_Descargadas}

C24_Descargadas(filas) ==
    \A i \in 1..Len(filas) : filas[i]["CodigoExterno"] \in C24_Codigos

\* C24: the tenders a run scores and ranks come from the records fetched in
\* that run alone: no tender that only a previous run left in the ledger is
\* among the scored rows, in the audit table or in the ranking, also when no
\* fetched tender passes the date filter.
C24_SoloDeEstaCorrida ==
    /\ pc \in {"puntajes", "duplicados", "hoja8", "top100", "ordenar", "hoja2", "fin"}
          => C24_Descargadas(df)
    /\ C24_Descargadas(df_unique)
    /\ C24_Descargadas(hoja8.filas)
    /\ C24_Descargadas(hoja2.filas)

\* C25: the scores are computed before the duplicates are dropped, and the
\* row kept for a code has the highest 'Puntaje Total' of the scored rows of
\* that code: no dropped row of the code has a higher total than the kept one.
C25_QuedaLaMayor ==
    pc \in {"hoja8", "top100", "ordenar", "hoja2", "fin"}
        => \A i \in 1..Len(df_unique) :
              /\ \E j \in 1..Len(df) : df[j] = df_unique[i]
              /\ \A j \in 1..Len(df) :
                    df[j]["CodigoExterno"] = df_unique[i]["CodigoExterno"]
                        => RLe(df[j]["Puntaje Total"], df_unique[i]["Puntaje Total"])

\* the duplicates were dropped from a table in which a row of lower total
\* came before a row of the same code, which is the one kept
C25_Witness ==
    /\ pc = "hoja8"
    /\ \E i \in 1..Len(df_unique), j, k \in 1..Len(df) :
          /\ j < k
          /\ df[k] = df_unique[i]
          /\ df[j]["CodigoExterno"] = df[k]["CodigoExterno"]
          /\ RLt(df[j]["Puntaje Total"], df[k]["Puntaje Total"])

(***************************************************************************)
(* Two runs of procesar_licitaciones_y_generar_ranking against one store.  *)
(* Nothing in the program keeps a second run from starting while a first   *)
(* is at work, and each call to the backend is a step of its own.  Here    *)
(* pc, ret, df, df_unique and data_final hold one value for each run, and  *)
(* a sheet is the grid of its rows, each row the sequence of its cells.    *)
(* What a run has to write is given: the ledger rows, the rows of          *)
(* non-relative scores and the ranking rows of run k are told apart by     *)
(* their codes alone.                                                      *)
(***************************************************************************)
Corridas == {1, 2}

\* the variant that writes nothing
worksheet_update_sin_efecto(hoja, fila, datos) == hoja

\* worksheet.update(range, datos), the range starting at row fila, column A:
\* the cells datos covers are overwritten and every other cell is left as
\* it is
worksheet_update(hoja, fila, datos) ==
    LET n == MaxOf({Len(hoja), fila - 1 + Len(datos)})
    IN  [i \in 1..n |->
            LET vieja == IF i <= Len(hoja) THEN hoja[i] ELSE <<>>
            IN  IF i >= fila /\ i < fila + Len(datos)
                THEN datos[i - fila + 1]
                        \o SubSeq(vieja, Len(datos[i - fila + 1]) + 1, Len(vieja))
                ELSE vieja]

\* worksheet.acell('A1').value
acell_A1(hoja) ==
    IF Len(hoja) >= 1 /\ Len(hoja[1]) >= 1 /\ hoja[1][1] # <<>> THEN hoja[1][1] ELSE None

\* [columns] + rows, the rows holding their code and nothing else
data_to_upload(columnas, codigos) ==
    <<columnas>> \o
    [i \in 1..Len(codigos) |->
        [c \in 1..Len(columnas) |->
            IF columnas[c] = "CodigoExterno" THEN codigos[i] ELSE <<>>]]

\* the tenders of a run, by their codes
CodigosDeCorrida == {<<<<"A">>>>, <<<<"B">>, <<"C">>>>}

\* the calls of a run on the three sheets it publishes, in their order
Pasos ==
    <<"hoja7 clear", "hoja7 actualizar_hoja", "hoja8 clear", "hoja8 actualizar_hoja",
      "hoja2 acell", "hoja2 clear", "hoja2 update", "hoja2 actualizar_hoja", "fin">>

Siguiente(paso) == Pasos[IndexOf(Pasos, paso) + 1]

InitDos ==
    /\ call = <<>>
    /\ entrada \in [Corridas -> CodigosDeCorrida]
    /\ pc = [k \in Corridas |-> Pasos[1]]
    /\ ret = [k \in Corridas |-> None]
    /\ df = [k \in Corridas |-> data_to_upload(COLUMNAS_IMPORTANTES, entrada[k])]
    /\ df_unique = [k \in Corridas |-> data_to_upload(ColumnasNoRelativos, entrada[k])]
    /\ data_final = [k \in Corridas |-> data_to_upload(ColumnasFinal, entrada[k])]
    /\ df_top_100 = <<>>
    /\ hoja2 = <<<<<<"t">>>>>>
    /\ hoja7 = <<>> /\ hoja8 = <<>> /\ hoja11 = HojaVacia

\* worksheet.clear() of run k, lines 751, 878 and 971
Clear(k) ==
    /\ pc[k] \in {"hoja7 clear", "hoja8 clear", "hoja2 clear"}
    /\ hoja7' = IF pc[k] = "hoja7 clear" THEN <<>> ELSE hoja7
    /\ hoja8' = IF pc[k] = "hoja8 clear" THEN <<>> ELSE hoja8
    /\ hoja2' = IF pc[k] = "hoja2 clear" THEN <<>> ELSE hoja2
    /\ pc' = [pc EXCEPT ![k] = Siguiente(pc[k])]
    /\ UNCHANGED <<llamada, entrada, hoja11, df, df_unique, df_top_100, data_final>>

\* actualizar_hoja(worksheet, rango, datos) of run k, lines 770, 882 and 976
ActualizarHoja(k) ==
    /\ pc[k] \in {"hoja7 actualizar_hoja", "hoja8 actualizar_hoja", "hoja2 actualizar_hoja"}
    /\ hoja7' = IF pc[k] = "hoja7 actualizar_hoja"
                THEN worksheet_update(hoja7, 1, df[k]) ELSE hoja7
    /\ hoja8' = IF pc[k] = "hoja8 actualizar_hoja"
                THEN worksheet_update(hoja8, 1, df_unique[k]) ELSE hoja8
    /\ hoja2' = IF pc[k] = "hoja2 actualizar_hoja"
                THEN worksheet_update(hoja2, 3, data_final[k]) ELSE hoja2
    /\ pc' = [pc EXCEPT ![k] = Siguiente(pc[k])]
    /\ UNCHANGED <<llamada, entrada, hoja11, df, df_unique, df_top_100, data_final>>

\* line 968: nombre_a1 of run k
Acell(k) ==
    /\ pc[k] = "hoja2 acell"
    /\ ret' = [ret EXCEPT ![k] = IF acell_A1(hoja2) # None THEN acell_A1(hoja2) ELSE <<>>]
    /\ pc' = [pc EXCEPT ![k] = Siguiente(pc[k])]
    /\ UNCHANGED <<call, entrada, hoja2, hoja7, hoja8, hoja11, df, df_unique, df_top_100,
                   data_final>>

\* line 972: worksheet_ranking.update('A1', [[nombre_a1]]) of run k
UpdateA1(k) ==
    /\ pc[k] = "hoja2 update"
    /\ hoja2' = worksheet_update(hoja2, 1, <<<<ret[k]>>>>)
    /\ pc' = [pc EXCEPT ![k] = Siguiente(pc[k])]
    /\ UNCHANGED <<llamada, entrada, hoja7, hoja8, hoja11, df, df_unique, df_top_100,
                   data_final>>

NextDos == \E k \in Corridas : Clear(k) \/ ActualizarHoja(k) \/ Acell(k) \/ UpdateA1(k)

SpecDos == InitDos /\ [][NextDos]_vars

\* both runs are through
C26_Terminadas == \A k \in Corridas : pc[k] = "fin"

\* the rows of hoja from row fila on are those of one run, with the rows of
\* the other run below them where the other run wrote more
C26_UnaSobreOtra(hoja, fila, datos) ==
    \E w, o \in Corridas :
        /\ w # o
        /\ Len(hoja) >= fila - 1 + Len(datos[w])
        /\ Len(hoja) <= fila - 1 + MaxOf({Len(datos[w]), Len(datos[o])})
        /\ \A i \in 1..Len(datos[w]) : hoja[fila - 1 + i] = datos[w][i]
        /\ \A i \in (Len(datos[w]) + 1)..(Len(hoja) - fila + 1) :
              hoja[fila - 1 + i] = datos[o][i]

\* what run k alone leaves on the ranking sheet
C26_RankingDe(k) == <<<<<<"t">>>>, <<>>>> \o data_final[k]

\* C26: two runs at work on one store at the same time are not kept apart:
\* their clear and write steps on a published sheet interleave.  When both
\* are through, each published sheet holds the rows of the run that wrote
\* it last, and below them what the other run wrote beyond those, and the
\* title cell holds the title or has lost it; so a sheet can be reached that
\* is the output of neither run.
C26_HojasMezcladas ==
    C26_Terminadas
        => /\ C26_UnaSobreOtra(hoja7, 1, df)
           /\ C26_UnaSobreOtra(hoja8, 1, df_unique)
           /\ C26_UnaSobreOtra(hoja2, 3, data_final)
           /\ hoja2[1] \in {<<<<"t">>>>, <<<<>>>>}
           /\ hoja2[2] = <<>>

\* both runs are through and neither the ledger, nor the sheet of
\* non-relative scores, nor the ranking is what either run alone writes
C26_Witness ==
    /\ C26_Terminadas
    /\ \A k \in Corridas : hoja7 # df[k] /\ hoja8 # df_unique[k] /\ hoja2 # C26_RankingDe(k)
    /\ hoja2[1] = <<<<"t">>>>

\* the sheet of non-relative scores holds the table this run wrote to it
C27_NoRelativosSubidos ==
    /\ hoja8.cabecera = ColumnasNoRelativos
    /\ hoja8.filas = serializar(seleccionar_columnas(df_unique, ColumnasNoRelativos))

\* C27: the ranking sheet is touched only once the sheet of non-relative
\* scores holds the table of this run, which the publishing of the ranking
\* leaves alone; and every code of a published ranking is a code of that
\* table.
C27_NoRelativosAntes ==
    [][hoja2' # hoja2
          => /\ C27_NoRelativosSubidos
             /\ hoja8' = hoja8
             /\ pc' = "fin"
                   => \A i \in 1..Len(hoja2'.filas) :
                         \E j \in 1..Len(hoja8.filas) :
                             hoja8.filas[j]["CodigoExterno"]
                                = hoja2'.filas[i]["CodigoExterno"]]_vars

\* a ranking is published that holds fewer tenders than the table of
\* non-relative scores written before it
C27_Witness ==
    /\ pc = "fin"
    /\ C27_NoRelativosSubidos
    /\ Len(hoja2.filas) >= 1
    /\ Len(hoja8.filas) > Len(hoja2.filas)

\* C28: when the ledger, read back after the selected tenders were removed,
\* holds no data row, the run returns without error; up to there and there
\* the sheet of non-relative scores and the ranking sheet are neither
\* cleared nor written, and a run that has returned does nothing more.
C28_RetornoSinPublicar ==
    [][/\ (pc = "leer" /\ hoja7.filas = <<>> /\ ~Aborta(<<"LeerHoja7", "get_all_values">>))
            => pc' = "retorno"
       /\ pc' \in {"inicio", "descargar", "sicep", "filtrar", "hoja7", "eliminar", "leer",
                   "retorno"}
            => hoja8' = hoja8 /\ hoja2' = hoja2
       /\ pc # "retorno"]_vars

\* the one tender of the ledger was selected and removed: the ledger holds
\* its header alone and the run has returned, the title of the ranking sheet
\* in its place
C28_Witness ==
    /\ pc = "retorno"
    /\ C18_Seleccion # {}
    /\ hoja7.cabecera = COLUMNAS_IMPORTANTES
    /\ hoja7.filas = <<>>
    /\ hoja8 = HojaVacia
    /\ hoja2 = [RankingVacio EXCEPT !.A1 = <<"t">>]

(***************************************************************************)
(* eliminar_licitaciones_seleccionadas on its own: one call of it, on a    *)
(* selection list and a ledger drawn from small sets, with the backend     *)
(* answering or failing at the clear or at the write of the ledger.  df    *)
(* holds the rows of the ledger before the call.                           *)
(***************************************************************************)
\* ledgers: no row at all, the header alone, up to three rows, and rows
\* under a header without 'CodigoExterno'
LedgersEliminar ==
    {HojaVacia}
        \cup {[cabecera |-> <<"CodigoExterno", "Nombre">>, filas |-> t] :
                 t \in TablasHasta({[CodigoExterno |-> c, Nombre |-> <<"n">>] :
                                       c \in {<<"A">>, <<"B">>, <<"Aacute">>}}, 3)}
        \cup {[cabecera |-> <<"Codigo", "Nombre">>, filas |-> t] :
                 t \in TablasHasta({[Codigo |-> c, Nombre |-> <<"n">>] :
                                       c \in {<<"A">>, <<"B">>}}, 2) \ {<<>>}}

\* selection lists: the cells of column A of the selection sheet, from row 4
SeleccionesEliminar == TablasHasta({<<>>, <<"a">>, <<"B">>, <<"x">>}, 2)

InitEliminar ==
    /\ call = <<>> /\ ret = Pending
    /\ pc = "eliminar"
    /\ entrada \in [seleccion : SeleccionesEliminar,
                    fallo : {SinFallo,
                             [donde |-> <<"EliminarSeleccionadas", "clear">>,
                              tipo |-> "permanente", veces |-> MaxIntentos],
                             [donde |-> <<"EliminarSeleccionadas", "actualizar_hoja">>,
                              tipo |-> "permanente", veces |-> MaxIntentos]}]
    /\ hoja7 \in LedgersEliminar
    /\ df = hoja7.filas
    /\ hoja2 = HojaVacia /\ hoja8 = HojaVacia /\ hoja11 = HojaVacia
    /\ df_unique = <<>> /\ df_top_100 = <<>> /\ data_final = <<>>

SpecEliminar == InitEliminar /\ [][EliminarSeleccionadas]_vars

\* the selected codes, normalised, blank cells left out
C29_Seleccion ==
    {eliminar_tildes_y_normalizar(entrada.seleccion[i]) :
        i \in {j \in 1..Len(entrada.seleccion) : entrada.seleccion[j] # <<>>}}

C29_Seleccionada(row) == eliminar_tildes_y_normalizar(row["CodigoExterno"]) \in C29_Seleccion

C29_NoSeleccionada(row) == ~C29_Seleccionada(row)

\* the four cases in which the ledger is to be left alone
C29_NadaQueEliminar(cabecera, filas) ==
    \/ C29_Seleccion = {}
    \/ filas = <<>>
    \/ "CodigoExterno" \notin Range(cabecera)
    \/ \A i \in 1..Len(filas) : C29_NoSeleccionada(filas[i])

\* C29: eliminar_licitaciones_seleccionadas leaves the ledger as it is, and
\* calls neither clear nor the write on it, when the selection list is empty,
\* the ledger has no data row or no 'CodigoExterno' column, or no row of it
\* has a selected code, codes compared normalised; otherwise it writes back,
\* under the same header, the rows whose normalised code is not selected, in
\* the order they had.
C29_MarcoDeEliminar ==
    [][pc = "eliminar"
          => IF C29_NadaQueEliminar(hoja7.cabecera, hoja7.filas)
             THEN hoja7' = hoja7 /\ pc' = "leer" /\ call' = <<>>
             ELSE IF entrada.fallo = SinFallo
             THEN /\ pc' = "leer"
                  /\ hoja7'.cabecera = hoja7.cabecera
                  /\ hoja7'.filas = SelectSeq(hoja7.filas, C29_NoSeleccionada)
             ELSE pc' = "error"]_vars

\* the call is over: of a ledger of three rows it took the selected one from
\* between two that stay
C29_Witness ==
    /\ pc = "leer"
    /\ Len(df) = 3 /\ Len(hoja7.filas) = 2
    /\ C29_Seleccionada(df[2])
    /\ hoja7.filas = <<df[1], df[3]>>
    /\ df[1] # df[3]

\* the configured terms of several words
C30_Frases == {p \in TermPool : " " \in Range(p)}

\* C30: a keyword or a blacklist entry that holds whitespace, a phrase of
\* several words, has no part in the keyword score: whatever the tender, the
\* score is the one computed with the phrase taken out of the keywords and
\* out of the blacklist, the text being matched token by token.
C30_FrasesSinEfecto ==
    (call.fn = "calcular_puntaje_palabra" /\ Returned)
        => \A frase \in C30_Frases :
              ret = calcular_puntaje_palabra(call.row, call.palabras_clave \ {frase},
                                             call.lista_negra \ {frase})

\* the text of the tender is the phrase 'a b', which is a keyword next to
\* 'a' and is blacklisted: the score is that of the keyword 'a' alone
C30_Witness ==
    /\ call.fn = "calcular_puntaje_palabra"
    /\ Returned
    /\ call.row = [Nombre |-> <<"a">>, Descripcion |-> <<"b">>]
    /\ call.palabras_clave = {<<"a", " ", "b">>, <<"a">>}
    /\ call.lista_negra = {<<"a", " ", "b">>}
    /\ ret.val = OfInt(10)

====
